---- MODULE Spec2Model ----
(***************************************************************************)
(* DocBotApp backend: the draft-session manager (data/report_manager.py),  *)
(* the report archive (data/report_store.py), the usage counters           *)
(* (data/stats.py), the request handlers that drive them                   *)
(* (api/routes/report.py) and the authentication throttle (api/auth.py).   *)
(*                                                                         *)
(* Text values are sequences of tokens: 0 is a whitespace character, a     *)
(* positive number is a non-blank piece of text.  An identifier produced   *)
(* by uuid4().hex is the one-token text <<n>> of a fresh number n.         *)
(* A file path is the sequence of its components.                          *)
(***************************************************************************)
EXTENDS Integers, Sequences, FiniteSets, TLC

\* ----------------------------------------------------------------- bounds
MaxItems == 2        \* items in one draft
MaxPhotos == 1       \* photos in one draft
MaxReports == 1      \* report ids drawn
\* identifiers drawn over the whole run
MaxItemIds == MaxItems
MaxPhotoIds == MaxPhotos

\* One user's stores: every store is keyed by user_id and no call reads
\* or writes a store of another user.
Users == {1}

\* None / JSON null for an Optional[str]: a text no input can spell.
NoneText == <<-1>>

\* ------------------------------------------------------------ text values
\* str.strip(): drop leading and trailing whitespace tokens.
RECURSIVE LStrip(_)
LStrip(s) ==
    IF s = <<>> THEN <<>>
    ELSE IF Head(s) = 0 THEN LStrip(Tail(s)) ELSE s

RECURSIVE RStrip(_)
RStrip(s) ==
    IF s = <<>> THEN <<>>
    ELSE IF s[Len(s)] = 0 THEN RStrip(SubSeq(s, 1, Len(s) - 1)) ELSE s

Strip(s) == RStrip(LStrip(s))

\* Python truthiness of an Optional[str]: None and "" are falsy.
Truthy(s) == s /= NoneText /\ s /= <<>>

\* str(n) for n >= 0: the decimal digits of n, most significant first.
RECURSIVE Str(_)
Str(n) ==
    IF n < 10 THEN <<n>> ELSE Str(n \div 10) \o <<n % 10>>

\* uuid4().hex of the n-th identifier drawn from one generator.
Hex(n) == <<n>>

\* ------------------------------------------------------------------ paths
\* storage layout: <user>/temp/<name>, <user>/reports/<report_id>/...
user_temp_dir(u) == <<u, "temp">>
user_report_data_dir(u, rid) == <<u, "reports", rid>>

\* Path.name: the last component.
PathName(p) == p[Len(p)]

\* p lies inside directory d.
InDir(p, d) == Len(p) > Len(d) /\ SubSeq(p, 1, Len(d)) = d

\* ------------------------------------------------------------- templates
TEMPLATES == <<"INSPECTION_REPORT", "VISIT_SUMMARY", "HOME_ORGANIZER_REPORT", "QUOTE">>

TemplateTitle(key) ==
    CASE key = "INSPECTION_REPORT" -> "Inspection Report"
      [] key = "VISIT_SUMMARY" -> "Visit Summary"
      [] key = "HOME_ORGANIZER_REPORT" -> "Home Organizer Report"
      [] key = "QUOTE" -> "Quote"

get_template(key) ==
    IF \E i \in 1..Len(TEMPLATES) : TEMPLATES[i] = key THEN key ELSE TEMPLATES[1]

\* ------------------------------------------------- session objects, dicts
\* In-memory dataclass instances carry their class in "cls"; the dict form
\* (asdict / to_dict, the content of a JSON file) has no "cls" entry.
ReportItem(id, number, description, notes) ==
    [cls |-> "ReportItem", id |-> id, number |-> number,
     description |-> description, notes |-> notes]

ReportPhoto(id, file_path, item_id, caption) ==
    [cls |-> "ReportPhoto", id |-> id, file_path |-> file_path,
     item_id |-> item_id, caption |-> caption]

asdict(obj) == [k \in (DOMAIN obj) \ {"cls"} |-> obj[k]]

\* Faulty variant of next_number: the count before the append.
next_number_count(session) == Str(Len(session.items))

next_number(session) == Str(Len(session.items) + 1)

to_dict(session) ==
    [user_id |-> session.user_id,
     location |-> session.location,
     title |-> session.title,
     template_key |-> session.template_key,
     attendees |-> session.attendees,
     distribution_list |-> session.distribution_list,
     items |-> [i \in 1..Len(session.items) |-> asdict(session.items[i])],
     photos |-> [i \in 1..Len(session.photos) |-> asdict(session.photos[i])]]

DictGet(data, key, default) == IF key \in DOMAIN data THEN data[key] ELSE default

ItemFromDict(d) == [k \in (DOMAIN d) \cup {"cls"} |-> IF k = "cls" THEN "ReportItem" ELSE d[k]]
PhotoFromDict(d) == [k \in (DOMAIN d) \cup {"cls"} |-> IF k = "cls" THEN "ReportPhoto" ELSE d[k]]

from_dict(data) ==
    LET its == DictGet(data, "items", <<>>)
        phs == DictGet(data, "photos", <<>>)
    IN  [cls |-> "ReportSession",
         user_id |-> data.user_id,
         location |-> DictGet(data, "location", <<>>),
         title |-> DictGet(data, "title", "Inspection Report"),
         template_key |-> DictGet(data, "template_key", "INSPECTION_REPORT"),
         attendees |-> DictGet(data, "attendees", <<>>),
         distribution_list |-> DictGet(data, "distribution_list", <<>>),
         items |-> [i \in 1..Len(its) |-> ItemFromDict(its[i])],
         photos |-> [i \in 1..Len(phs) |-> PhotoFromDict(phs[i])]]

\* ------------------------------------------------------------------ state
\* An optional value is <<>> (absent: no dict entry, no file) or <<v>>.
VARIABLES
    sessions,      \* ReportManager._sessions: user -> optional ReportSession
    draftFile,     \* user_session_file(user): optional to_dict form
    tempFiles,     \* user -> names of the photo files in user_temp_dir(user)
    reportDirs,    \* user -> (report_id -> content directory), existing ones only
    index,         \* user_reports_index_file(user): optional list of summaries
    stats,         \* user_stats_file(user): optional UserStats record
    nextItemId,    \* uuid4() draws for ReportItem.id
    nextPhotoId,   \* uuid4() draws for ReportPhoto.id and the photo file name
    nextReportId,  \* uuid4() draws for report_id
    req,           \* user -> optional finalize request in flight
    last           \* outcome of the last completed call

draftVars == <<sessions, draftFile, tempFiles, reportDirs, index, stats,
               nextItemId, nextPhotoId, nextReportId, req, last>>

\* The last completed call: which one, what its caller saw, and whether the
\* user had a draft (cached or on file) when it started.
Outcome(op, u, status, ret) ==
    [op |-> op, status |-> status,
     had |-> (u \in Users /\ (sessions[u] /= <<>> \/ draftFile[u] /= <<>>))]

NoActiveReport == "400 No active report"

EmptyDir == [doc |-> FALSE, photosDir |-> FALSE, photos |-> {}, report_json |-> <<>>]

UserStats == [reports_started |-> 0, reports_created |-> 0, items_added |-> 0, photos_added |-> 0]

InitDraft ==
    /\ sessions = [u \in Users |-> <<>>]
    /\ draftFile = [u \in Users |-> <<>>]
    /\ tempFiles = [u \in Users |-> {}]
    /\ reportDirs = [u \in Users |-> <<>>]
    /\ index = [u \in Users |-> <<>>]
    /\ stats = [u \in Users |-> <<>>]
    /\ nextItemId = 1
    /\ nextPhotoId = 1
    /\ nextReportId = 1
    /\ req = [u \in Users |-> <<>>]
    /\ last = Outcome("init", 0, "ok", <<>>)

\* Path(p).exists() for a photo path.
Exists(p) ==
    LET u == p[1]
    IN  CASE p[2] = "temp" -> Len(p) = 3 /\ p[3] \in tempFiles[u]
          [] p[2] = "reports" ->
                /\ Len(p) = 5
                /\ p[3] \in DOMAIN reportDirs[u]
                /\ p[4] = "photos"
                /\ p[5] \in reportDirs[u][p[3]].photos
          [] OTHER -> FALSE

\* --------------------------------------------------------- ReportManager
\* Faulty variant of get_session: a missing draft is created on demand.
get_session_or_create(u) ==
    IF sessions[u] /= <<>> THEN sessions[u]
    ELSE IF draftFile[u] /= <<>> THEN <<from_dict(draftFile[u][1])>>
    ELSE <<from_dict([user_id |-> u])>>

\* The value get_session returns; a session found only on disk is loaded
\* with from_dict and cached.
get_session(u) ==
    IF sessions[u] /= <<>> THEN sessions[u]
    ELSE IF draftFile[u] /= <<>> THEN <<from_dict(draftFile[u][1])>>
    ELSE <<>>

\* Faulty variant of _save_session: the contact lists are not written.
SaveSessionWithoutContacts(session) ==
    <<to_dict([session EXCEPT !.attendees = <<>>, !.distribution_list = <<>>])>>

\* _save_session: the file is rewritten with session.to_dict().
SaveSession(session) == <<to_dict(session)>>

\* StatsManager.get / increment / save on the stats file of one user.
StatsGet(u) == IF stats[u] /= <<>> THEN stats[u][1] ELSE UserStats

Increment(u, field) ==
    IF field \in DOMAIN StatsGet(u)
    THEN [stats EXCEPT ![u] = <<[StatsGet(u) EXCEPT ![field] = @ + 1]>>]
    ELSE stats

\* ----------------------------------------------------------------- inputs
Locations == {<<0, 7, 0>>}
TemplateKeys == {""}
Descriptions == {<<0>>, <<0, 5>>}
UpdateDescriptions == {<<8, 0>>}
AllowEmpty == {FALSE}
NotesValues == {NoneText}
ContactPayloads ==
    {[attendees |-> <<>>, distribution_list |-> <<>>],
     [attendees |-> <<Hex(1)>>, distribution_list |-> <<Hex(2)>>]}
\* An item_id as a client can send it: missing, empty, blank, the id of any
\* item ever created (bare or padded with blanks), or an id never issued.
IssuedItemIds == 1..(nextItemId - 1)
\* an id beyond every id the run can draw
UnknownId == MaxItems + MaxPhotos + MaxReports + 1
ItemIdForms ==
    {NoneText, <<>>, <<0>>, Hex(UnknownId)}
        \cup {Hex(n) : n \in IssuedItemIds}
        \cup {<<0>> \o Hex(n) \o <<0>> : n \in IssuedItemIds}
ReportIdInputs == (1..(nextReportId - 1)) \cup {UnknownId}

Idle(u) == req[u] = <<>>

\* ---------------------------------------------------- draft-session calls
\* Faulty variant of NewSession: the photos of the draft in place are kept.
NewSessionKeepingPhotos(u, location, template_key) ==
    LET template == IF template_key /= "" THEN get_template(template_key)
                    ELSE get_template("INSPECTION_REPORT")
    IN  [cls |-> "ReportSession",
         user_id |-> u,
         location |-> Strip(location),
         title |-> TemplateTitle(template),
         template_key |-> template,
         attendees |-> <<>>,
         distribution_list |-> <<>>,
         items |-> <<>>,
         photos |-> IF sessions[u] /= <<>> THEN sessions[u][1].photos ELSE <<>>]

\* The ReportSession that create_session builds: the template looked up,
\* the location stripped, the lists at their dataclass defaults.
NewSession(u, location, template_key) ==
    LET template == IF template_key /= "" THEN get_template(template_key)
                    ELSE get_template("INSPECTION_REPORT")
    IN  [cls |-> "ReportSession",
         user_id |-> u,
         location |-> Strip(location),
         title |-> TemplateTitle(template),
         template_key |-> template,
         attendees |-> <<>>,
         distribution_list |-> <<>>,
         items |-> <<>>,
         photos |-> <<>>]

\* ReportManager.create_session(user_id, location, template_key), called
\* with the parameters it declares.
create_session(u, location, template_key) ==
    /\ Idle(u)
    /\ LET session == NewSession(u, location, template_key)
       IN  /\ sessions' = [sessions EXCEPT ![u] = <<session>>]
           /\ draftFile' = [draftFile EXCEPT ![u] = SaveSession(session)]
    /\ last' = Outcome("create_session", u, "ok", <<>>)
    /\ UNCHANGED <<tempFiles, reportDirs, index, stats, nextItemId, nextPhotoId,
                   nextReportId, req>>

\* POST /reports/start.  The handler passes project_name= to create_session,
\* which declares no such parameter: the call raises TypeError before the
\* manager, the locations, the counters or the audit log are touched.
start_report(u) ==
    /\ Idle(u)
    /\ last' = Outcome("start_report", u, "TypeError", <<>>)
    /\ UNCHANGED <<sessions, draftFile, tempFiles, reportDirs, index, stats,
                   nextItemId, nextPhotoId, nextReportId, req>>

\* GET /reports/session
get_active_session(u) ==
    /\ Idle(u)
    /\ sessions' = [sessions EXCEPT ![u] = get_session(u)]
    /\ last' = Outcome("get_active_session", u,
                       IF get_session(u) = <<>> THEN NoActiveReport ELSE "ok", <<>>)
    /\ UNCHANGED <<draftFile, tempFiles, reportDirs, index, stats, nextItemId,
                   nextPhotoId, nextReportId, req>>

\* ReportManager.add_item on the cached session: the new item and the saved file.
AddItem(session, id, description, notes) ==
    [session EXCEPT !.items =
        Append(@, ReportItem(id, next_number(session), description, notes))]

\* POST /reports/item
add_item(u, rawDescription, rawNotes, allow_empty) ==
    /\ Idle(u)
    /\ LET found == get_session(u)
           description == Strip(rawDescription)
           notes == Strip(IF Truthy(rawNotes) THEN rawNotes ELSE <<>>)
       IN  IF found = <<>>
           THEN /\ last' = Outcome("add_item", u, NoActiveReport, <<>>)
                /\ UNCHANGED <<sessions, draftFile, stats, nextItemId>>
           ELSE IF description = <<>> /\ notes = <<>> /\ ~allow_empty
           THEN /\ sessions' = [sessions EXCEPT ![u] = found]
                /\ last' = Outcome("add_item", u, "400 Description or notes required", <<>>)
                /\ UNCHANGED <<draftFile, stats, nextItemId>>
           ELSE /\ nextItemId <= MaxItemIds
                /\ Len(found[1].items) < MaxItems
                /\ LET session == AddItem(found[1], Hex(nextItemId), description, notes)
                   IN  /\ sessions' = [sessions EXCEPT ![u] = <<session>>]
                       /\ draftFile' = [draftFile EXCEPT ![u] = SaveSession(session)]
                       /\ last' = Outcome("add_item", u, "ok",
                                          session.items[Len(session.items)].number)
                /\ nextItemId' = nextItemId + 1
                /\ stats' = Increment(u, "items_added")
    /\ UNCHANGED <<tempFiles, reportDirs, index, nextPhotoId, nextReportId, req>>

\* ReportManager.update_item: the position of the first item with that id, 0 if none.
FindItem(session, item_id) ==
    IF \E i \in 1..Len(session.items) : session.items[i].id = item_id
    THEN CHOOSE i \in 1..Len(session.items) :
            /\ session.items[i].id = item_id
            /\ \A j \in 1..(i - 1) : session.items[j].id /= item_id
    ELSE 0

UpdateItem(session, i, description, notes) ==
    [session EXCEPT !.items[i].description = description, !.items[i].notes = notes]

\* PUT /reports/item/{item_id}
update_item(u, item_id, rawDescription, rawNotes) ==
    /\ Idle(u)
    /\ LET found == get_session(u)
           description == Strip(rawDescription)
           notes == IF Truthy(rawNotes) THEN rawNotes ELSE <<>>
       IN  IF found = <<>>
           THEN /\ last' = Outcome("update_item", u, NoActiveReport, <<>>)
                /\ UNCHANGED <<sessions, draftFile>>
           ELSE IF FindItem(found[1], item_id) = 0
           THEN /\ sessions' = [sessions EXCEPT ![u] = found]
                /\ last' = Outcome("update_item", u, "400 Item not found", <<>>)
                /\ UNCHANGED draftFile
           ELSE LET session == UpdateItem(found[1], FindItem(found[1], item_id),
                                          description, notes)
                IN  /\ sessions' = [sessions EXCEPT ![u] = <<session>>]
                    /\ draftFile' = [draftFile EXCEPT ![u] = SaveSession(session)]
                    /\ last' = Outcome("update_item", u, "ok", <<>>)
    /\ UNCHANGED <<tempFiles, reportDirs, index, stats, nextItemId, nextPhotoId,
                   nextReportId, req>>

\* The item_id the photo handler passes on: stripped, None when missing or
\* empty before stripping, None when it is non-empty and names no item.
NormalizeItemId(session, raw) ==
    LET item_id == IF Truthy(raw) THEN Strip(raw) ELSE NoneText
    IN  IF Truthy(item_id) /\ ~(\E i \in 1..Len(session.items) : session.items[i].id = item_id)
        THEN NoneText
        ELSE item_id

\* ReportManager.add_photo on the cached session.
AddPhoto(session, id, file_path, item_id) ==
    [session EXCEPT !.photos = Append(@, ReportPhoto(id, file_path, item_id, NoneText))]

\* POST /reports/photo
add_photo(u, rawItemId) ==
    /\ Idle(u)
    /\ LET found == get_session(u)
       IN  IF found = <<>>
           THEN /\ last' = Outcome("add_photo", u, NoActiveReport, <<>>)
                /\ UNCHANGED <<sessions, draftFile, tempFiles, stats, nextPhotoId>>
           ELSE /\ nextPhotoId <= MaxPhotoIds
                /\ Len(found[1].photos) < MaxPhotos
                /\ LET item_id == NormalizeItemId(found[1], rawItemId)
                       photo_path == user_temp_dir(u) \o <<nextPhotoId>>
                       session == AddPhoto(found[1], Hex(nextPhotoId), photo_path, item_id)
                   IN  /\ tempFiles' = [tempFiles EXCEPT ![u] = @ \cup {nextPhotoId}]
                       /\ sessions' = [sessions EXCEPT ![u] = <<session>>]
                       /\ draftFile' = [draftFile EXCEPT ![u] = SaveSession(session)]
                /\ nextPhotoId' = nextPhotoId + 1
                /\ stats' = Increment(u, "photos_added")
                /\ last' = Outcome("add_photo", u, "ok", <<>>)
    /\ UNCHANGED <<reportDirs, index, nextItemId, nextReportId, req>>

SetContacts(session, attendees, distribution_list) ==
    [session EXCEPT !.attendees = attendees, !.distribution_list = distribution_list]

\* POST /reports/contacts
set_contacts(u, attendees, distribution_list) ==
    /\ Idle(u)
    /\ LET found == get_session(u)
       IN  IF found = <<>>
           THEN /\ last' = Outcome("set_contacts", u, NoActiveReport, <<>>)
                /\ UNCHANGED <<sessions, draftFile>>
           ELSE LET session == SetContacts(found[1], attendees, distribution_list)
                IN  /\ sessions' = [sessions EXCEPT ![u] = <<session>>]
                    /\ draftFile' = [draftFile EXCEPT ![u] = SaveSession(session)]
                    /\ last' = Outcome("set_contacts", u, "ok", <<>>)
    /\ UNCHANGED <<tempFiles, reportDirs, index, stats, nextItemId, nextPhotoId,
                   nextReportId, req>>

\* ReportManager.finalize: pop the cached session and unlink the draft file.
FinalizeSessions(u) == [sessions EXCEPT ![u] = <<>>]
\* Faulty variant of FinalizeDraftFile: the draft file is left in place.
FinalizeKeepsFile(u) == draftFile

FinalizeDraftFile(u) == [draftFile EXCEPT ![u] = <<>>]

\* POST /reports/cancel
cancel_report(u) ==
    /\ Idle(u)
    /\ IF get_session(u) = <<>>
       THEN /\ last' = Outcome("cancel_report", u, NoActiveReport, <<>>)
            /\ UNCHANGED <<sessions, draftFile>>
       ELSE /\ sessions' = FinalizeSessions(u)
            /\ draftFile' = FinalizeDraftFile(u)
            /\ last' = Outcome("cancel_report", u, "ok", <<>>)
    /\ UNCHANGED <<tempFiles, reportDirs, index, stats, nextItemId, nextPhotoId,
                   nextReportId, req>>

\* POST /reports/finalize_pdf: the draft is closed, then generate_report_pdf
\* reads session.project_name, a field ReportSession does not have.
finalize_report_pdf(u) ==
    /\ Idle(u)
    /\ IF get_session(u) = <<>>
       THEN /\ last' = Outcome("finalize_report_pdf", u, NoActiveReport, <<>>)
            /\ UNCHANGED <<sessions, draftFile>>
       ELSE /\ sessions' = FinalizeSessions(u)
            /\ draftFile' = FinalizeDraftFile(u)
            /\ last' = Outcome("finalize_report_pdf", u, "AttributeError", <<>>)
    /\ UNCHANGED <<tempFiles, reportDirs, index, stats, nextItemId, nextPhotoId,
                   nextReportId, req>>

\* ------------------------------------- ReportManager methods, called bare
\* ReportManager.add_item, not preceded by get_session: the session is
\* taken from self._sessions, the draft file is not looked at.
manager_add_item(u) ==
    /\ Idle(u)
    /\ IF sessions[u] = <<>>
       THEN /\ last' = Outcome("ReportManager.add_item", u, "KeyError", <<>>)
            /\ UNCHANGED <<sessions, draftFile, nextItemId>>
       ELSE /\ nextItemId <= MaxItemIds
            /\ Len(sessions[u][1].items) < MaxItems
            /\ LET session == AddItem(sessions[u][1], Hex(nextItemId), <<5>>, <<>>)
               IN  /\ sessions' = [sessions EXCEPT ![u] = <<session>>]
                   /\ draftFile' = [draftFile EXCEPT ![u] = SaveSession(session)]
            /\ nextItemId' = nextItemId + 1
            /\ last' = Outcome("ReportManager.add_item", u, "ok", <<>>)
    /\ UNCHANGED <<tempFiles, reportDirs, index, stats, nextPhotoId, nextReportId, req>>

\* ReportManager.add_photo, not preceded by get_session.
manager_add_photo(u) ==
    /\ Idle(u)
    /\ IF sessions[u] = <<>>
       THEN /\ last' = Outcome("ReportManager.add_photo", u, "KeyError", <<>>)
            /\ UNCHANGED <<sessions, draftFile, nextPhotoId>>
       ELSE /\ nextPhotoId <= MaxPhotoIds
            /\ Len(sessions[u][1].photos) < MaxPhotos
            /\ LET session == AddPhoto(sessions[u][1], Hex(nextPhotoId),
                                       user_temp_dir(u) \o <<nextPhotoId>>, NoneText)
               IN  /\ sessions' = [sessions EXCEPT ![u] = <<session>>]
                   /\ draftFile' = [draftFile EXCEPT ![u] = SaveSession(session)]
            /\ nextPhotoId' = nextPhotoId + 1
            /\ last' = Outcome("ReportManager.add_photo", u, "ok", <<>>)
    /\ UNCHANGED <<tempFiles, reportDirs, index, stats, nextItemId, nextReportId, req>>

\* ReportManager.finalize, not preceded by get_session.
manager_finalize(u) ==
    /\ Idle(u)
    /\ IF sessions[u] = <<>>
       THEN /\ last' = Outcome("ReportManager.finalize", u, "KeyError", <<>>)
            /\ UNCHANGED <<sessions, draftFile>>
       ELSE /\ sessions' = FinalizeSessions(u)
            /\ draftFile' = FinalizeDraftFile(u)
            /\ last' = Outcome("ReportManager.finalize", u, "ok", <<>>)
    /\ UNCHANGED <<tempFiles, reportDirs, index, stats, nextItemId, nextPhotoId,
                   nextReportId, req>>

\* --------------------------------------------------------- report archive
\* getattr on a dataclass instance: only declared fields exist.
HasAttr(obj, name) == name \in DOMAIN obj

\* ReportStore.list_reports: no index file reads as the empty list.
list_reports(u) == IF index[u] /= <<>> THEN index[u][1] ELSE <<>>

\* user_report_data_dir creates the directory when it is missing.
EnsureDir(dirs, rid) ==
    IF rid \in DOMAIN dirs THEN dirs
    ELSE [r \in (DOMAIN dirs) \cup {rid} |-> IF r = rid THEN EmptyDir ELSE dirs[r]]

RemoveDir(dirs, rid) == [r \in (DOMAIN dirs) \ {rid} |-> dirs[r]]

ReportSummary(report_id, session) ==
    [report_id |-> report_id,
     location |-> session.location,
     template_key |-> session.template_key,
     title |-> session.title,
     folder |-> <<>>,
     project_name |-> session.project_name,
     tags |-> <<>>]

\* Faulty variant of AppendSummary: the new row goes to the end.
AppendSummaryLast(u, summary) == [index EXCEPT ![u] = <<Append(list_reports(u), summary)>>]

\* ReportStore._append_summary
AppendSummary(u, summary) == [index EXCEPT ![u] = << <<summary>> \o list_reports(u) >>]

Request(pc, session, report_id, k, updated_photos) ==
    [pc |-> pc, session |-> session, report_id |-> report_id, k |-> k,
     updated_photos |-> updated_photos]

\* POST /reports/finalize up to the call of save_report: the draft is
\* closed (popped and unlinked) and the document rendered.
finalize_report(u) ==
    /\ Idle(u)
    /\ IF get_session(u) = <<>>
       THEN /\ last' = Outcome("finalize_report", u, NoActiveReport, <<>>)
            /\ UNCHANGED <<sessions, draftFile, req>>
       ELSE /\ nextReportId <= MaxReports
            /\ sessions' = FinalizeSessions(u)
            /\ draftFile' = FinalizeDraftFile(u)
            /\ req' = [req EXCEPT ![u] =
                          <<Request("copy_docx", get_session(u)[1], 0, 1, <<>>)>>]
            /\ last' = Outcome("finalize", u, "ok", <<>>)
    /\ UNCHANGED <<tempFiles, reportDirs, index, stats, nextItemId, nextPhotoId,
                   nextReportId>>

\* save_report: report_id = uuid4().hex, the directory, the copied document.
save_copy_docx(u) ==
    /\ req[u] /= <<>>
    /\ req[u][1].pc = "copy_docx"
    /\ reportDirs' = [reportDirs EXCEPT ![u] =
                         [EnsureDir(@, nextReportId) EXCEPT ![nextReportId].doc = TRUE]]
    /\ nextReportId' = nextReportId + 1
    /\ req' = [req EXCEPT ![u] = <<[@[1] EXCEPT !.pc = "mkdir_photos",
                                               !.report_id = nextReportId]>>]
    /\ UNCHANGED <<sessions, draftFile, tempFiles, index, stats, nextItemId,
                   nextPhotoId, last>>

save_mkdir_photos(u) ==
    /\ req[u] /= <<>>
    /\ req[u][1].pc = "mkdir_photos"
    /\ reportDirs' = [reportDirs EXCEPT ![u][req[u][1].report_id].photosDir = TRUE]
    /\ req' = [req EXCEPT ![u] = <<[@[1] EXCEPT !.pc = "copy_photos"]>>]
    /\ UNCHANGED <<sessions, draftFile, tempFiles, index, stats, nextItemId,
                   nextPhotoId, nextReportId, last>>

\* One iteration of the photo loop: an existing source is copied and the
\* photo re-pointed at the copy, a missing one is kept as it is.
CopyPhoto(u, report_id, photo) ==
    IF Exists(photo.file_path)
    THEN ReportPhoto(photo.id,
                     user_report_data_dir(u, report_id) \o <<"photos", PathName(photo.file_path)>>,
                     photo.item_id, photo.caption)
    ELSE photo

save_copy_photo(u) ==
    /\ req[u] /= <<>>
    /\ req[u][1].pc = "copy_photos"
    /\ req[u][1].k <= Len(req[u][1].session.photos)
    /\ LET r == req[u][1]
           photo == r.session.photos[r.k]
       IN  /\ reportDirs' =
                 IF Exists(photo.file_path)
                 THEN [reportDirs EXCEPT ![u][r.report_id].photos =
                          @ \cup {PathName(photo.file_path)}]
                 ELSE reportDirs
           /\ req' = [req EXCEPT ![u] =
                         <<[r EXCEPT !.k = @ + 1,
                                     !.updated_photos =
                                         Append(@, CopyPhoto(u, r.report_id, photo))]>>]
    /\ UNCHANGED <<sessions, draftFile, tempFiles, index, stats, nextItemId,
                   nextPhotoId, nextReportId, last>>

\* session.photos = updated_photos; report.json = session.to_dict()
save_write_snapshot(u) ==
    /\ req[u] /= <<>>
    /\ req[u][1].pc = "copy_photos"
    /\ req[u][1].k > Len(req[u][1].session.photos)
    /\ LET r == req[u][1]
           session == [r.session EXCEPT !.photos = r.updated_photos]
       IN  /\ reportDirs' = [reportDirs EXCEPT ![u][r.report_id].report_json =
                                 <<to_dict(session)>>]
           /\ req' = [req EXCEPT ![u] = <<[r EXCEPT !.pc = "summary", !.session = session]>>]
    /\ UNCHANGED <<sessions, draftFile, tempFiles, index, stats, nextItemId,
                   nextPhotoId, nextReportId, last>>

\* The ReportSummary is built from the session, session.project_name
\* included; then _append_summary, and back in the handler the
\* reports_created counter.  Reading a field the session object does not
\* have raises AttributeError and ends the request.
save_summary(u) ==
    /\ req[u] /= <<>>
    /\ req[u][1].pc = "summary"
    /\ LET r == req[u][1]
       IN  IF HasAttr(r.session, "project_name")
           THEN /\ index' = AppendSummary(u, ReportSummary(r.report_id, r.session))
                /\ stats' = Increment(u, "reports_created")
                /\ last' = Outcome("finalize_report", u, "ok", Hex(r.report_id))
           ELSE /\ last' = Outcome("finalize_report", u, "AttributeError", Hex(r.report_id))
                /\ UNCHANGED <<index, stats>>
    /\ req' = [req EXCEPT ![u] = <<>>]
    /\ UNCHANGED <<sessions, draftFile, tempFiles, reportDirs, nextItemId,
                   nextPhotoId, nextReportId>>

\* ReportStore.get_report_data: the snapshot, absent when report.json is.
get_report_data(dirs, rid) == EnsureDir(dirs, rid)[rid].report_json

\* POST /reports/{report_id}/open.  The handler calls
\* load_from_report(user_id, data); the manager declares
\* load_from_report(session_data), so the call raises TypeError.
open_report(u, rid) ==
    /\ Idle(u)
    /\ reportDirs' = [reportDirs EXCEPT ![u] = EnsureDir(@, rid)]
    /\ last' = Outcome("open_report", u,
                       IF get_report_data(reportDirs[u], rid) = <<>>
                       THEN "404 Report not found" ELSE "TypeError", <<>>)
    /\ UNCHANGED <<sessions, draftFile, tempFiles, index, stats, nextItemId,
                   nextPhotoId, nextReportId, req>>

\* ReportManager.load_from_report(session_data), called with the
\* parameter it declares, on a snapshot read with get_report_data.
load_from_report(session_data) ==
    LET session == from_dict(session_data)
        u == session.user_id
    IN  /\ Idle(u)
        /\ sessions' = [sessions EXCEPT ![u] = <<session>>]
        /\ draftFile' = [draftFile EXCEPT ![u] = SaveSession(session)]
        /\ last' = Outcome("load_from_report", u, "ok", <<>>)
        /\ UNCHANGED <<tempFiles, reportDirs, index, stats, nextItemId, nextPhotoId,
                       nextReportId, req>>

Snapshots ==
    UNION {{reportDirs[u][r].report_json[1] :
                r \in {x \in DOMAIN reportDirs[u] : reportDirs[u][x].report_json /= <<>>}} :
           u \in Users}

\* delete_report: the summaries that stay in the index.
KeptSummaries(u, rid) == SelectSeq(list_reports(u), LAMBDA s : s.report_id /= rid)

\* delete_report: "if len(summaries) == original_len: return False"
Indexed(u, rid) == Len(KeptSummaries(u, rid)) /= Len(list_reports(u))

\* Faulty variant of DirsAfterDelete: the directory goes, indexed or not.
DirsRemovedAnyway(u, rid) == [reportDirs EXCEPT ![u] = RemoveDir(@, rid)]

\* delete_report: the content directories it leaves.
DirsAfterDelete(u, rid) ==
    IF Indexed(u, rid) THEN [reportDirs EXCEPT ![u] = RemoveDir(@, rid)] ELSE reportDirs

\* ReportStore.delete_report, run to its return.
delete_report(u, rid) ==
    /\ Idle(u)
    /\ IF Indexed(u, rid)
       THEN /\ index' = [index EXCEPT ![u] = <<KeptSummaries(u, rid)>>]
            /\ last' = Outcome("delete_report", u, "True", <<>>)
       ELSE /\ last' = Outcome("delete_report", u, "False", <<>>)
            /\ UNCHANGED index
    /\ reportDirs' = DirsAfterDelete(u, rid)
    /\ UNCHANGED <<sessions, draftFile, tempFiles, stats, nextItemId, nextPhotoId,
                   nextReportId, req>>

\* The event each handler passes to log_event, its last statement before
\* the return of the success path; POST /contacts has no such call.
AuditEvent ==
    [start_report |-> "START_REPORT", add_item |-> "ADD_ITEM",
     update_item |-> "UPDATE_ITEM", add_photo |-> "ADD_PHOTO",
     set_contacts |-> "SET_CONTACTS", finalize_report |-> "FINALIZE_REPORT",
     finalize_report_pdf |-> "FINALIZE_REPORT_PDF", cancel_report |-> "CANCEL_REPORT",
     open_report |-> "OPEN_REPORT"]

\* log_event: the event a completed call has appended to the audit file.
LoggedEvent(outcome) ==
    IF outcome.op \in DOMAIN AuditEvent /\ outcome.status = "ok"
    THEN <<AuditEvent[outcome.op]>>
    ELSE <<>>

\* The process stops and is started again: the in-memory session cache and
\* the requests in flight are gone, the files stay.
Crash ==
    /\ sessions' = [u \in Users |-> <<>>]
    /\ req' = [u \in Users |-> <<>>]
    /\ last' = Outcome("crash", 0, "ok", <<>>)
    /\ UNCHANGED <<draftFile, tempFiles, reportDirs, index, stats, nextItemId,
                   nextPhotoId, nextReportId>>

\* ----------------------------------------------------------- auth throttle
_RATE_WINDOW_SECONDS == 60
_RATE_MAX_PER_WINDOW == 5

MaxTime == 62
MaxAttempts == 6
TickSteps == {30, 31}

VARIABLES
    now,           \* time.time(), in seconds
    RATE_LIMITS,   \* _RATE_LIMITS: key -> optional list of timestamps
    acceptedLog,   \* history: key -> times of the attempts that were let through
    rejectedAt,    \* history: key -> time of the latest refused attempt, -1 if none
    lastAuth       \* outcome of the last throttle check

authVars == <<now, RATE_LIMITS, acceptedLog, rejectedAt, lastAuth>>

\* login lockout (auth.py)
VARIABLES
    FAILED_LOGINS, \* _FAILED_LOGINS: key -> optional list of failure times
    LOGIN_LOCKS,   \* _LOGIN_LOCKS: key -> optional locked_until
    failTimes,     \* history: key -> times of the failures recorded since the
                   \*   failures of the key were last removed
    clearedWith,   \* history: key -> how many recorded failures the last
                   \*   successful login removed, -1 before the first one
    lastLogin      \* the last login call: key, password, time, lock found, answer

loginVars == <<FAILED_LOGINS, LOGIN_LOCKS, failTimes, clearedWith, lastLogin>>

\* the stores at the level of their files and of the calls in progress
VARIABLES
    lastDelete,    \* the last delete_report call that returned: id and result
    incLocal,      \* worker thread -> optional UserStats its increment call has read
    incDone,       \* history: number of increment calls that have returned
    files,         \* store -> optional text of its file
    tmpFile,       \* optional text of the .tmp file next to the stats file
    saving,        \* optional save in progress: store, text to write, tokens written
    lastLoad       \* the last load of a store: what its caller got

fileVars == <<files, tmpFile, saving, lastLoad>>

VARIABLES
    cache,         \* UserAuthManager._cache: phone -> optional UserRecord
    usersFile,     \* config.USERS_FILE: optional content, readable or not
    issued,        \* history: the ids create_user has returned, in order
    lastUser,      \* the last call of the user directory: what its caller got
    locFile,       \* user_locations_file(user): optional list of locations
    lastOrganize   \* the last update_organize call and what it returned

dirVars == <<cache, usersFile, issued, lastUser, locFile, lastOrganize>>

VARIABLES
    thr,           \* caller -> optional call in progress: its position and its locals
    done,          \* history: the calls of the callers that have returned, in order
    book,          \* contacts_manager (src/data): user -> the contacts it holds
    lastContact    \* the last call of that contacts manager and what it returned

callVars == <<thr, done, book, lastContact>>

storeVars == <<lastDelete, incLocal, incDone, fileVars, dirVars, callVars>>

vars == <<draftVars, authVars, loginVars, storeVars>>

AuthActions == {"login"}
ClientHosts == {"A"}
Phones == {"", "none", "X"}

\* check_auth_rate_limit: the key of (action, client address, phone or "none").
RateKey(action, client_ip, phone) ==
    <<action, client_ip, IF phone /= "" THEN phone ELSE "none">>

RateKeys == {RateKey(a, c, p) : a \in AuthActions, c \in ClientHosts, p \in Phones}

InitAuth ==
    /\ now = 0
    /\ RATE_LIMITS = [k \in RateKeys |-> <<>>]
    /\ acceptedLog = [k \in RateKeys |-> <<>>]
    /\ rejectedAt = [k \in RateKeys |-> -1]
    /\ lastAuth = [key |-> <<"", "", "">>, status |-> "init", at |-> 0]

\* Faulty variant of WindowEntries: the window excludes its start.
WindowEntriesOpen(key, t) ==
    LET entries == IF RATE_LIMITS[key] /= <<>> THEN RATE_LIMITS[key][1] ELSE <<>>
    IN  SelectSeq(entries, LAMBDA e : e > t - _RATE_WINDOW_SECONDS)

\* entries = [t for t in _RATE_LIMITS.get(key, []) if t >= window_start]
WindowEntries(key, t) ==
    LET entries == IF RATE_LIMITS[key] /= <<>> THEN RATE_LIMITS[key][1] ELSE <<>>
    IN  SelectSeq(entries, LAMBDA e : e >= t - _RATE_WINDOW_SECONDS)

TooManyRequests == "429 Too many requests"

\* Faulty variant of EntriesOnReject: the refused attempt is stored too.
EntriesOnRejectStored(key, t) == <<Append(WindowEntries(key, t), t)>>

\* A refused attempt raises before _RATE_LIMITS[key] is assigned.
EntriesOnReject(key, t) == RATE_LIMITS[key]

RateLimited(key, t) == Len(WindowEntries(key, t)) >= _RATE_MAX_PER_WINDOW

RECURSIVE SumLen(_, _)
SumLen(f, keys) ==
    IF keys = {} THEN 0
    ELSE LET k == CHOOSE x \in keys : TRUE IN Len(f[k]) + SumLen(f, keys \ {k})

TotalAccepted == SumLen(acceptedLog, RateKeys)

\* _check_rate_limit through check_auth_rate_limit
check_auth_rate_limit(action, client_ip, phone) ==
    LET key == RateKey(action, client_ip, phone)
    IN  /\ IF RateLimited(key, now)
           THEN /\ lastAuth' = [key |-> key, status |-> TooManyRequests, at |-> now]
                /\ rejectedAt' = [rejectedAt EXCEPT ![key] = now]
                /\ RATE_LIMITS' = [RATE_LIMITS EXCEPT ![key] = EntriesOnReject(key, now)]
                /\ UNCHANGED acceptedLog
           ELSE /\ TotalAccepted < MaxAttempts
                /\ RATE_LIMITS' = [RATE_LIMITS EXCEPT ![key] =
                                      <<Append(WindowEntries(key, now), now)>>]
                /\ acceptedLog' = [acceptedLog EXCEPT ![key] = Append(@, now)]
                /\ lastAuth' = [key |-> key, status |-> "ok", at |-> now]
                /\ UNCHANGED rejectedAt
        /\ UNCHANGED <<now, draftVars, loginVars, storeVars>>

Tick(d) ==
    /\ now + d <= MaxTime
    /\ now' = now + d
    /\ UNCHANGED <<RATE_LIMITS, acceptedLog, rejectedAt, lastAuth, draftVars, loginVars, storeVars>>

\* ---------------------------------------------------------- login lockout
_LOCKOUT_WINDOW_SECONDS == 600
_LOCKOUT_THRESHOLD == 5
_LOCKOUT_DURATION_SECONDS == 600

\* The user directory the login handler consults: phone X is registered
\* and verified with password "pw".
LoginPhones == {"X"}
Passwords == {"pw", "bad"}
VerifyPassword(phone, password) == phone = "X" /\ password = "pw"

\* _login_key: "<client address>:<phone>"
_login_key(client_ip, phone) == <<client_ip, phone>>

LoginKeys == {_login_key(c, p) : c \in ClientHosts, p \in LoginPhones}

\* The instants at which calls are made in the lockout runs.
LoginInstants == {0, 59, 61, 599, 600, 601, 661, 1201}

InitLogin ==
    /\ FAILED_LOGINS = [k \in LoginKeys |-> <<>>]
    /\ LOGIN_LOCKS = [k \in LoginKeys |-> <<>>]
    /\ failTimes = [k \in LoginKeys |-> <<>>]
    /\ clearedWith = [k \in LoginKeys |-> -1]
    /\ lastLogin = [key |-> <<"", "">>, good |-> FALSE, at |-> 0, lock |-> <<>>,
                    status |-> "init"]

LockedOut == "429 Too many failed attempts"
InvalidLogin == "401 Invalid phone or password"

\* Faulty variant of is_login_locked: the lock ends a second early.
LockedButLast(key, t) == LOGIN_LOCKS[key] /= <<>> /\ t + 1 < LOGIN_LOCKS[key][1]

\* is_login_locked, the value returned: a lock that has not expired.
is_login_locked(key, t) == LOGIN_LOCKS[key] /= <<>> /\ t < LOGIN_LOCKS[key][1]

LockExpired(key, t) == LOGIN_LOCKS[key] /= <<>> /\ t >= LOGIN_LOCKS[key][1]

\* is_login_locked, the stores it leaves: an expired lock is popped together
\* with the failures of its key.
LocksAfterCheck(key, t) ==
    IF LockExpired(key, t) THEN [LOGIN_LOCKS EXCEPT ![key] = <<>>] ELSE LOGIN_LOCKS

\* Faulty variant of FailuresAfterCheck: an expired lock leaves the failures.
FailuresKeptAfterCheck(key, t) == FAILED_LOGINS

FailuresAfterCheck(key, t) ==
    IF LockExpired(key, t) THEN [FAILED_LOGINS EXCEPT ![key] = <<>>] ELSE FAILED_LOGINS

\* record_login_failure: the failures of the trailing window and this one.
FailureEntries(failed, key, t) ==
    LET entries == IF failed[key] /= <<>> THEN failed[key][1] ELSE <<>>
    IN  Append(SelectSeq(entries, LAMBDA e : e >= t - _LOCKOUT_WINDOW_SECONDS), t)

\* Faulty variant of ThresholdReached: the lock waits for one failure more.
ThresholdPassed(entries) == Len(entries) > _LOCKOUT_THRESHOLD

ThresholdReached(entries) == Len(entries) >= _LOCKOUT_THRESHOLD

\* Faulty variant of ClearFailures: only the lock is removed.
ClearLockOnly(failed, key) == failed

\* clear_login_failures, the failures it leaves.
ClearFailures(failed, key) == [failed EXCEPT ![key] = <<>>]

\* POST /auth/login for a client address, a phone and a password.
login(client_ip, phone, password) ==
    LET rk == RateKey("login", client_ip, phone)
        key == _login_key(client_ip, phone)
        good == VerifyPassword(phone, password)
        answer(st) == [key |-> key, good |-> good, at |-> now,
                       lock |-> LOGIN_LOCKS[key], status |-> st]
        failed == FailuresAfterCheck(key, now)
        locks == LocksAfterCheck(key, now)
        entries == FailureEntries(failed, key, now)
    IN  /\ IF RateLimited(rk, now)
           THEN /\ lastLogin' = answer(TooManyRequests)
                /\ RATE_LIMITS' = [RATE_LIMITS EXCEPT ![rk] = EntriesOnReject(rk, now)]
                /\ UNCHANGED <<FAILED_LOGINS, LOGIN_LOCKS, failTimes, clearedWith>>
           ELSE /\ RATE_LIMITS' = [RATE_LIMITS EXCEPT ![rk] =
                                      <<Append(WindowEntries(rk, now), now)>>]
                /\ IF is_login_locked(key, now)
                   THEN /\ lastLogin' = answer(LockedOut)
                        /\ UNCHANGED <<FAILED_LOGINS, LOGIN_LOCKS, failTimes, clearedWith>>
                   ELSE IF ~good
                   THEN /\ FAILED_LOGINS' = [failed EXCEPT ![key] = <<entries>>]
                        /\ LOGIN_LOCKS' =
                               IF ThresholdReached(entries)
                               THEN [locks EXCEPT ![key] = <<now + _LOCKOUT_DURATION_SECONDS>>]
                               ELSE locks
                        /\ failTimes' = [failTimes EXCEPT ![key] =
                                            Append(IF LockExpired(key, now) THEN <<>> ELSE @, now)]
                        /\ lastLogin' = answer(InvalidLogin)
                        /\ UNCHANGED clearedWith
                   ELSE /\ FAILED_LOGINS' = ClearFailures(failed, key)
                        /\ LOGIN_LOCKS' = [locks EXCEPT ![key] = <<>>]
                        /\ clearedWith' = [clearedWith EXCEPT ![key] =
                                              IF failed[key] = <<>> THEN 0
                                              ELSE Len(failed[key][1])]
                        /\ failTimes' = [failTimes EXCEPT ![key] = <<>>]
                        /\ lastLogin' = answer("ok")
        /\ UNCHANGED <<now, acceptedLog, rejectedAt, lastAuth, draftVars, storeVars>>

\* Time moves on to a later instant.
AdvanceTo(t) ==
    /\ t > now
    /\ now' = t
    /\ UNCHANGED <<RATE_LIMITS, acceptedLog, rejectedAt, lastAuth, draftVars, loginVars, storeVars>>

\* ---------------------------------------------------------- specifications
\* ------------------------------------------- delete_report, interruptible
\* delete_report step by step, for the runs in which it can be interrupted:
\* the index is written first, the directory is removed after.
delete_index_write(u, rid) ==
    /\ Idle(u)
    /\ IF Indexed(u, rid)
       THEN /\ index' = [index EXCEPT ![u] = <<KeptSummaries(u, rid)>>]
            /\ req' = [req EXCEPT ![u] = <<Request("rmtree", <<>>, rid, 0, <<>>)>>]
            /\ UNCHANGED <<last, storeVars>>
       ELSE /\ last' = Outcome("delete_report", u, "False", <<>>)
            /\ lastDelete' = [report_id |-> rid, result |-> FALSE]
            /\ UNCHANGED <<incLocal, incDone, fileVars, dirVars, callVars>>
            /\ UNCHANGED <<index, req>>
    /\ UNCHANGED <<sessions, draftFile, tempFiles, reportDirs, stats, nextItemId,
                   nextPhotoId, nextReportId>>

delete_rmtree(u) ==
    /\ req[u] /= <<>>
    /\ req[u][1].pc = "rmtree"
    /\ reportDirs' = [reportDirs EXCEPT ![u] = RemoveDir(@, req[u][1].report_id)]
    /\ req' = [req EXCEPT ![u] = <<>>]
    /\ last' = Outcome("delete_report", u, "True", <<>>)
    /\ lastDelete' = [report_id |-> req[u][1].report_id, result |-> TRUE]
    /\ UNCHANGED <<incLocal, incDone, fileVars, dirVars, callVars>>
    /\ UNCHANGED <<sessions, draftFile, tempFiles, index, stats, nextItemId,
                   nextPhotoId, nextReportId>>

\* ------------------------------------------ StatsManager.increment, threads
\* The handlers are plain functions, which the server runs on a pool of
\* worker threads: calls for one user can overlap.
Workers == {1, 2, 3}
MaxIncrements == 4

\* increment: stats = self.get(user_id)
increment_get(w, u) ==
    /\ incLocal[w] = <<>>
    /\ incDone + Cardinality({x \in Workers : incLocal[x] /= <<>>}) < MaxIncrements
    /\ incLocal' = [incLocal EXCEPT ![w] = <<StatsGet(u)>>]
    /\ UNCHANGED <<draftVars, authVars, loginVars, lastDelete, incDone, fileVars, dirVars, callVars>>

\* increment: setattr(stats, field, getattr(stats, field) + 1); self.save(...)
increment_save(w, u, field) ==
    /\ incLocal[w] /= <<>>
    /\ stats' = [stats EXCEPT ![u] = <<[incLocal[w][1] EXCEPT ![field] = @ + 1]>>]
    /\ incLocal' = [incLocal EXCEPT ![w] = <<>>]
    /\ incDone' = incDone + 1
    /\ UNCHANGED <<sessions, draftFile, tempFiles, reportDirs, index, nextItemId,
                   nextPhotoId, nextReportId, req, last, authVars, loginVars, lastDelete,
                   fileVars, dirVars, callVars>>

\* ------------------------------------------------- the stores as files
\* The text of a file is a sequence of tokens: brackets, one token per JSON
\* member or element, and junk that is no JSON.  A file cut short is a
\* prefix of the text that was being written.
Tok(kind, payload) == [t |-> kind, v |-> payload]
LBrace == Tok("{", <<>>)
RBrace == Tok("}", <<>>)
LBracket == Tok("[", <<>>)
RBracket == Tok("]", <<>>)
Field(key, n) == Tok("field", <<key, n>>)     \* "key": n
ContactTok(id) == Tok("contact", <<id>>)      \* an object with the fields of Contact
RowTok(id) == Tok("row", <<id>>)              \* an object with the fields of ReportSummary
UserTok(id) == Tok("user", <<id>>)            \* an object with the fields of UserRecord
OtherDict == Tok("dict", <<>>)                \* an object with other fields
Scalar == Tok("scalar", <<>>)                 \* a number
Junk == Tok("junk", <<>>)                     \* characters that are no JSON

ObjectKinds == {"contact", "row", "user", "dict"}
ElementKinds == ObjectKinds \cup {"scalar", "str"}
MemberKinds == {"field", "locations"}

Stores == {"stats", "contacts", "session", "index", "users"}
\* the stores that keep a file, the recent locations included
FileStores == Stores \cup {"locations"}

StatKeys == <<"reports_started", "reports_created", "items_added", "photos_added">>

Middle(text) == SubSeq(text, 2, Len(text) - 1)

AllOfKind(seq, kinds) == \A i \in 1..Len(seq) : seq[i].t \in kinds

RECURSIVE MembersEnd(_, _)
\* The index of the "}" that closes the object whose members start at i,
\* 0 when the text is no such object.
MembersEnd(text, i) ==
    IF i > Len(text) THEN 0
    ELSE IF text[i] = RBrace THEN i
    ELSE IF text[i].t \in MemberKinds THEN MembersEnd(text, i + 1)
    ELSE 0

RECURSIVE ValueEnd(_, _, _)
\* With inList false: the index of the last token of the JSON value that
\* starts at i.  With inList true: the index of the "]" that closes the
\* list whose elements start at i.  0 when the text is no such value.
ValueEnd(text, i, inList) ==
    IF i > Len(text) THEN 0
    ELSE IF inList
    THEN IF text[i] = RBracket THEN i
         ELSE IF ValueEnd(text, i, FALSE) = 0 THEN 0
         ELSE ValueEnd(text, ValueEnd(text, i, FALSE) + 1, TRUE)
    ELSE IF text[i].t \in ElementKinds THEN i
    ELSE IF text[i] = LBracket THEN ValueEnd(text, i + 1, TRUE)
    ELSE IF text[i] = LBrace THEN MembersEnd(text, i + 1)
    ELSE 0

\* json.loads: the shape of the value, "error" for a JSONDecodeError.
JsonShape(text) ==
    IF text = <<>> \/ ValueEnd(text, 1, FALSE) /= Len(text) THEN "error"
    ELSE IF text[1] = LBrace THEN "object"
    ELSE IF text[1] = LBracket THEN "list"
    ELSE IF text[1].t \in ObjectKinds THEN "dict"
    ELSE "scalar"

RECURSIVE ElementsFrom(_, _)
\* The elements of the list whose elements start at i: an object written
\* out with braces is an object with other fields, a list is no object.
ElementsFrom(text, i) ==
    IF text[i] = RBracket THEN <<>>
    ELSE <<IF text[i] = LBrace THEN OtherDict
           ELSE IF text[i] = LBracket THEN Scalar
           ELSE text[i]>> \o ElementsFrom(text, ValueEnd(text, i, FALSE) + 1)

\* The elements of a text that json.loads reads as a list.
Elements(text) == ElementsFrom(text, 2)

\* str.find / str.rfind of a bracket: 0 when there is none.
Find(text, tok) ==
    IF \E i \in 1..Len(text) : text[i] = tok
    THEN CHOOSE i \in 1..Len(text) : text[i] = tok /\ \A j \in 1..(i - 1) : text[j] /= tok
    ELSE 0

RFind(text, tok) ==
    IF \E i \in 1..Len(text) : text[i] = tok
    THEN CHOOSE i \in 1..Len(text) : text[i] = tok /\ \A j \in (i + 1)..Len(text) : text[j] /= tok
    ELSE 0

\* What a load gives its caller and leaves on disk.
Loaded(status, value, file) == [status |-> status, value |-> value, file |-> file]

\* ------------------------------------------------------------- contacts
\* Faulty variant of IsContact: any object is taken for a contact.
IsAnyObject(tok) == tok.t \in ObjectKinds

\* Contact(**c) succeeds: c has the fields of Contact.
IsContact(tok) == tok.t = "contact"

DumpList(elems) == <<LBracket>> \o elems \o <<RBracket>>

\* ContactsManager._recover_from_text: <<>> for None, <<contacts>> otherwise.
RecoverContacts(text) ==
    LET start == Find(text, LBracket)
        end == RFind(text, RBracket)
        sub == SubSeq(text, start, end)
        dicts == SelectSeq(Elements(sub), LAMBDA e : e.t \in ObjectKinds)
    IN  IF text = <<>> THEN <<>>
        ELSE IF start /= 0 /\ end /= 0 /\ end > start
        THEN IF JsonShape(sub) = "list" /\ \A i \in 1..Len(dicts) : IsContact(dicts[i])
             THEN <<dicts>>
             ELSE <<>>
        ELSE <<>>

\* ContactsManager.get_contacts on the contacts file.
get_contacts(file) ==
    IF file = <<>> THEN Loaded("ok", <<>>, file)
    ELSE LET text == file[1]
             shape == JsonShape(text)
         IN  IF shape = "list" /\ \A i \in 1..Len(Elements(text)) : IsContact(Elements(text)[i])
             THEN Loaded("ok", Elements(text), file)
             ELSE IF shape = "object" /\ Middle(text) = <<>>
             THEN Loaded("ok", <<>>, file)
             ELSE IF RecoverContacts(text) /= <<>>
             THEN Loaded("recovered", RecoverContacts(text)[1],
                         <<DumpList(RecoverContacts(text)[1])>>)
             ELSE Loaded("empty", <<>>, <<>>)

\* ---------------------------------------------------------------- stats
DumpStats(rec) ==
    <<LBrace>> \o [i \in 1..Len(StatKeys) |-> Field(StatKeys[i], rec[StatKeys[i]])] \o <<RBrace>>

KnownStatKey(k) == \E i \in 1..Len(StatKeys) : StatKeys[i] = k

\* the value of the last member called k (json.loads keeps the last one)
LastValue(fields, k, default) ==
    IF \E i \in 1..Len(fields) : fields[i].v[1] = k
    THEN fields[CHOOSE i \in 1..Len(fields) :
                    fields[i].v[1] = k /\ \A j \in (i + 1)..Len(fields) : fields[j].v[1] /= k].v[2]
    ELSE default

\* the value of the first "k": digits in the text (re.search)
FirstValue(text, k) ==
    LET hits == SelectSeq(text, LAMBDA e : e.t = "field" /\ e.v[1] = k)
    IN  IF hits = <<>> THEN <<>> ELSE <<hits[1].v[2]>>

\* UserStats(**data) for an object with known members only
StatsOf(fields) ==
    [reports_started |-> LastValue(fields, "reports_started", 0),
     reports_created |-> LastValue(fields, "reports_created", 0),
     items_added |-> LastValue(fields, "items_added", 0),
     photos_added |-> LastValue(fields, "photos_added", 0)]

StatsLoads(text) ==
    /\ JsonShape(text) = "object"
    /\ \A i \in 1..Len(Middle(text)) : KnownStatKey(Middle(text)[i].v[1])

\* StatsManager._recover_from_text: <<>> for None, <<UserStats>> otherwise.
RecoverStats(text) ==
    LET start == Find(text, LBrace)
        end == RFind(text, RBrace)
        sub == SubSeq(text, start, end)
        found(k) == FirstValue(text, k)
        value(k) == IF found(k) = <<>> THEN 0 ELSE found(k)[1]
    IN  IF text = <<>> THEN <<>>
        ELSE IF start /= 0 /\ end /= 0 /\ end > start /\ StatsLoads(sub)
        THEN <<StatsOf(Middle(sub))>>
        ELSE IF \A i \in 1..Len(StatKeys) : found(StatKeys[i]) = <<>>
        THEN <<>>
        ELSE <<[reports_started |-> value("reports_started"),
                reports_created |-> value("reports_created"),
                items_added |-> value("items_added"),
                photos_added |-> value("photos_added")]>>

\* StatsManager.get on the stats file; a recovered record is saved back.
StatsManagerGet(file) ==
    IF file = <<>> THEN Loaded("ok", UserStats, file)
    ELSE LET text == file[1]
         IN  IF StatsLoads(text) THEN Loaded("ok", StatsOf(Middle(text)), file)
             ELSE IF RecoverStats(text) /= <<>>
             THEN Loaded("recovered", RecoverStats(text)[1], <<DumpStats(RecoverStats(text)[1])>>)
             ELSE Loaded("empty", UserStats, <<>>)

\* ------------------------------------------------------ recent locations
\* add_location(self, user_id, location, max_items: int = 5)
max_items == 5

\* A location is a text of letters and blanks (0).  There is one letter
\* more than the list can hold entries; a letter c in upper case is
\* c + max_items + 1.
Letters == 1..(max_items + 1)
Upper(c) == c + max_items + 1

LocationInputs ==
    {<<>>, <<0>>} \cup {<<c>> : c \in Letters} \cup {<<0, Upper(c), 0>> : c \in Letters}

\* Faulty variant of Lower: the text as it is.
LowerNot(text) == text

\* str.lower()
Lower(text) == [i \in 1..Len(text) |-> IF text[i] \in Letters \/ text[i] = 0
                                        THEN text[i] ELSE text[i] - (max_items + 1)]

\* LocationsManager._sanitize_location, for a text of printable characters
_sanitize_location(value) == Strip(value)

\* LocationsManager._sanitize_list
_sanitize_list(values) ==
    SelectSeq([i \in 1..Len(values) |-> _sanitize_location(values[i])], LAMBDA v : v /= <<>>)

\* "locations": [values], a member whose value is a list of strings
LocsTok(values) == Tok("locations", <<values>>)
\* a string as an element of a list
StrTok(text) == Tok("str", <<text>>)

\* json.dump({"locations": values}, out)
DumpLocations(values) == <<LBrace, LocsTok(values), RBrace>>

\* data.get("locations", []) on the members of an object: json.loads keeps
\* the last member of a name.  list tells whether the value is a list.
LocationsMember(members) ==
    LET hits == SelectSeq(members, LAMBDA e : e.t = "locations" \/ e.v[1] = "locations")
        hit == hits[Len(hits)]
    IN  IF hits = <<>> THEN [list |-> TRUE, values |-> <<>>]
        ELSE IF hit.t = "locations" THEN [list |-> TRUE, values |-> hit.v[1]]
        ELSE [list |-> FALSE, values |-> <<>>]

\* [v for v in values if isinstance(v, str)] on the elements of a list
StringsOf(elems) ==
    LET strs == SelectSeq(elems, LAMBDA e : e.t = "str")
    IN  [i \in 1..Len(strs) |-> strs[i].v[1]]

\* The raw-list half of _recover_locations_from_text.
RecoverRawList(text) ==
    LET start == Find(text, LBracket)
        end == RFind(text, RBracket)
        sub == SubSeq(text, start, end)
    IN  IF start /= 0 /\ end /= 0 /\ end > start /\ JsonShape(sub) = "list"
        THEN <<StringsOf(Elements(sub))>>
        ELSE <<>>

\* LocationsManager._recover_locations_from_text: <<>> for None.
_recover_locations_from_text(text) ==
    LET start == Find(text, LBrace)
        end == RFind(text, RBrace)
        sub == SubSeq(text, start, end)
    IN  IF text = <<>> THEN <<>>
        ELSE IF /\ start /= 0 /\ end /= 0 /\ end > start
                /\ JsonShape(sub) = "object"
                /\ LocationsMember(Middle(sub)).list
        THEN <<LocationsMember(Middle(sub)).values>>
        ELSE RecoverRawList(text)

\* The end of get_locations: the list is written only when sanitizing
\* changed it.
SanitizedAndKept(status, locations, file) ==
    Loaded(status, _sanitize_list(locations),
           IF _sanitize_list(locations) /= locations
           THEN <<DumpLocations(_sanitize_list(locations))>>
           ELSE file)

\* LocationsManager.get_locations on the locations file.
LoadLocationsFile(file) ==
    IF file = <<>> THEN Loaded("ok", <<>>, file)
    ELSE LET text == file[1]
             recovered == _recover_locations_from_text(text)
         IN  IF JsonShape(text) = "object"
             THEN IF LocationsMember(Middle(text)).list
                  THEN SanitizedAndKept("ok", LocationsMember(Middle(text)).values, file)
                  ELSE Loaded("raises", <<>>, file)
             ELSE IF recovered /= <<>>
             THEN SanitizedAndKept("recovered", recovered[1], file)
             ELSE Loaded("empty", <<>>, <<>>)

\* ------------------------------------------- draft session, index, users
\* ReportManager.get_session after a restart: json.load with no handler.
LoadSessionFile(file) ==
    IF file = <<>> THEN Loaded("ok", <<>>, file)
    ELSE IF JsonShape(file[1]) = "object" THEN Loaded("ok", Middle(file[1]), file)
    ELSE Loaded("raises", <<>>, file)

\* ReportStore.list_reports: json.load with no handler.
LoadIndexFile(file) ==
    IF file = <<>> THEN Loaded("ok", <<>>, file)
    ELSE IF JsonShape(file[1]) = "list" /\ AllOfKind(Elements(file[1]), {"row"})
    THEN Loaded("ok", Elements(file[1]), file)
    ELSE Loaded("raises", <<>>, file)

\* UserAuthManager._load_all: any failure is logged and reads as no users.
LoadUsersFile(file) ==
    IF file = <<>> THEN Loaded("ok", <<>>, file)
    ELSE IF JsonShape(file[1]) = "list" /\ AllOfKind(Elements(file[1]), {"user"})
    THEN Loaded("ok", Elements(file[1]), file)
    ELSE Loaded("empty", <<>>, file)

LoadStore(store, file) ==
    CASE store = "stats" -> StatsManagerGet(file)
      [] store = "contacts" -> get_contacts(file)
      [] store = "session" -> LoadSessionFile(file)
      [] store = "index" -> LoadIndexFile(file)
      [] store = "users" -> LoadUsersFile(file)
      [] store = "locations" -> LoadLocationsFile(file)

\* A load of one store, made while no save is in progress.
load(store) ==
    /\ saving = <<>>
    /\ files' = [files EXCEPT ![store] = LoadStore(store, files[store]).file]
    /\ lastLoad' = [store |-> store, status |-> LoadStore(store, files[store]).status,
                    from |-> files[store], value |-> LoadStore(store, files[store]).value]
    /\ UNCHANGED <<tmpFile, saving>>
    /\ UNCHANGED <<draftVars, authVars, loginVars, lastDelete, incLocal, incDone, dirVars, callVars>>

\* Faulty variant of UsesTempFile: no store writes through a temp file.
UsesNoTempFile(store) == FALSE

\* StatsManager.save writes path.with_suffix(".tmp") and renames it over the
\* file; the other saves open the file itself for writing.
UsesTempFile(store) == store = "stats"

\* The texts the saves write.
SaveTexts(store) ==
    CASE store = "stats" ->
            {DumpStats([UserStats EXCEPT !.items_added = n]) : n \in {1, 2}}
      [] store = "contacts" -> {DumpList(<<ContactTok(1)>>)}
      [] store = "session" -> {<<LBrace, Field("user_id", 1), RBrace>>}
      [] store = "index" -> {DumpList(<<RowTok(1)>>)}
      [] store = "users" -> {DumpList(<<UserTok(1)>>)}

\* open(..., "w"): the file written to exists and is empty.
save_open(store, text) ==
    /\ saving = <<>>
    /\ saving' = <<[store |-> store, text |-> text, n |-> 0]>>
    /\ IF UsesTempFile(store)
       THEN tmpFile' = << <<>> >> /\ UNCHANGED files
       ELSE files' = [files EXCEPT ![store] = << <<>> >>] /\ UNCHANGED tmpFile
    /\ UNCHANGED lastLoad
    /\ UNCHANGED <<draftVars, authVars, loginVars, lastDelete, incLocal, incDone, dirVars, callVars>>

\* json.dump: the next piece of the text reaches the file.
save_write ==
    /\ saving /= <<>>
    /\ saving[1].n < Len(saving[1].text)
    /\ LET sv == saving[1]
           piece == sv.text[sv.n + 1]
       IN  /\ saving' = <<[sv EXCEPT !.n = @ + 1]>>
           /\ IF UsesTempFile(sv.store)
              THEN tmpFile' = <<Append(tmpFile[1], piece)>> /\ UNCHANGED files
              ELSE /\ files' = [files EXCEPT ![sv.store] = <<Append(@[1], piece)>>]
                   /\ UNCHANGED tmpFile
    /\ UNCHANGED lastLoad
    /\ UNCHANGED <<draftVars, authVars, loginVars, lastDelete, incLocal, incDone, dirVars, callVars>>

\* The file is closed; tmp_path.replace(path) where a temp file was written.
save_close ==
    /\ saving /= <<>>
    /\ saving[1].n = Len(saving[1].text)
    /\ saving' = <<>>
    /\ IF UsesTempFile(saving[1].store)
       THEN /\ files' = [files EXCEPT ![saving[1].store] = tmpFile]
            /\ tmpFile' = <<>>
       ELSE UNCHANGED <<files, tmpFile>>
    /\ UNCHANGED lastLoad
    /\ UNCHANGED <<draftVars, authVars, loginVars, lastDelete, incLocal, incDone, dirVars, callVars>>

\* The process dies in the middle of a save; the files stay as they are.
CrashInSave ==
    /\ saving /= <<>>
    /\ saving' = <<>>
    /\ lastLoad' = [store |-> saving[1].store, status |-> "crash", from |-> <<>>, value |-> <<>>]
    /\ UNCHANGED <<files, tmpFile>>
    /\ UNCHANGED <<draftVars, authVars, loginVars, lastDelete, incLocal, incDone, dirVars, callVars>>

\* ------------------------------------------------ files found corrupted
\* The longest file text drawn.
MaxLen == 4

ContactsAlphabet ==
    {LBracket, RBracket, LBrace, RBrace, ContactTok(1), ContactTok(2), OtherDict, Scalar, Junk}

StatsAlphabet ==
    {LBrace, RBrace, LBracket, Field("items_added", 1), Field("photos_added", 2),
     Field("extra", 3), Junk}

\* a clean list in a member, a list with a padded entry, a member that is
\* no list, and a string on its own
LocationsAlphabet ==
    {LBrace, RBrace, LBracket, RBracket, LocsTok(<<<<1>>>>), LocsTok(<<<<0, 2>>>>),
     Field("locations", 0), StrTok(<<1>>), Junk}

Texts(alphabet) == UNION {[1..n -> alphabet] : n \in 0..MaxLen}

\* -------------------------------------------------------- user directory
\* timedelta(minutes=10), in seconds
CodeLifetime == 600

\* The largest number of ids create_user hands out in a run.
MaxCreates == 3

UserPhones == {"P", "Q"}
Emails == {"a@x.io", "bad"}
Codes == {"000001", "000002"}
FullNames == {<<>>, <<"N">>}

\* pwd_context.hash / pwd_context.verify, the salt left out
Hash(secret) == <<"bcrypt", secret>>

_is_valid_email(email) == email = "a@x.io"

UserRecord(user_id, phone, email, password_hash) ==
    [user_id |-> user_id, phone |-> phone, email |-> email,
     password_hash |-> password_hash, verified |-> FALSE,
     verification_code_hash |-> <<>>, verification_expires_at |-> <<>>,
     full_name |-> <<>>]

NoUsers == [p \in UserPhones |-> <<>>]

Unreadable == <<[ok |-> FALSE, users |-> NoUsers]>>

InitDir ==
    /\ cache = NoUsers
    /\ usersFile = <<>>
    /\ issued = <<>>
    /\ lastUser = [op |-> "init", phone |-> "", status |-> "ok", user_id |-> 0]
    /\ locFile = <<>>
    /\ lastOrganize = [report_id |-> 0, folder |-> <<>>, tags |-> <<>>, result |-> <<>>]

\* UserAuthManager._load_all: the cache when it holds a user, else the
\* users file, else (no file, or a file that fails to load) no users.
_load_all ==
    IF cache /= NoUsers THEN cache
    ELSE IF usersFile /= <<>> /\ usersFile[1].ok THEN usersFile[1].users
    ELSE NoUsers

\* UserAuthManager._save_all: what the users file holds after it.
_save_all(users) == <<[ok |-> TRUE, users |-> users]>>

UserIds(users) == {users[p][1].user_id : p \in {q \in UserPhones : users[q] /= <<>>}}

_next_user_id(users) ==
    IF users = NoUsers THEN 1
    ELSE (CHOOSE m \in UserIds(users) : \A i \in UserIds(users) : i <= m) + 1

UserAnswer(op, phone, status, user_id) ==
    [op |-> op, phone |-> phone, status |-> status, user_id |-> user_id]

\* Every call leaves the time alone and touches nothing outside the directory.
UserFrame ==
    UNCHANGED <<draftVars, authVars, loginVars, lastDelete, incLocal, incDone, fileVars,
                locFile, lastOrganize, callVars>>

\* Faulty variant of PhoneTaken: no phone is ever taken.
PhoneNeverTaken(users, phone) == FALSE

\* create_user: "if phone in users"
PhoneTaken(users, phone) == users[phone] /= <<>>

\* UserAuthManager.create_user
create_user(phone, password, email) ==
    LET users == _load_all
        user == UserRecord(_next_user_id(users), phone, email, Hash(password))
    IN  /\ IF PhoneTaken(users, phone)
           THEN /\ cache' = users
                /\ lastUser' = UserAnswer("create_user", phone, "User already exists", 0)
                /\ UNCHANGED <<usersFile, issued>>
           ELSE /\ Len(issued) < MaxCreates
                /\ cache' = [users EXCEPT ![phone] = <<user>>]
                /\ usersFile' = _save_all(cache')
                /\ issued' = Append(issued, user.user_id)
                /\ lastUser' = UserAnswer("create_user", phone, "ok", user.user_id)
        /\ UserFrame

\* Faulty variant of AlreadyVerified: a verified user may ask for a code.
NeverVerified(user) == FALSE

\* request_email_code: "if user and user.verified"
AlreadyVerified(user) == user /= <<>> /\ user[1].verified

\* UserAuthManager.request_email_code
request_email_code(phone, email, password, code) ==
    LET users == _load_all
        user == users[phone]
        base == IF user = <<>>
                THEN UserRecord(_next_user_id(users), phone, <<email>>, Hash(password))
                ELSE [user[1] EXCEPT !.email = <<email>>, !.password_hash = Hash(password)]
        coded == [base EXCEPT !.verification_code_hash = <<Hash(code)>>,
                              !.verification_expires_at = <<now + CodeLifetime>>]
        answer(status) == UserAnswer("request_email_code", phone, status, 0)
    IN  /\ IF ~_is_valid_email(email)
           THEN /\ lastUser' = answer("Invalid email")
                /\ UNCHANGED <<cache, usersFile, issued>>
           ELSE IF AlreadyVerified(user)
           THEN /\ lastUser' = answer("User already verified")
                /\ cache' = users
                /\ UNCHANGED <<usersFile, issued>>
           ELSE IF user /= <<>> /\ user[1].password_hash /= Hash(password)
           THEN /\ lastUser' = answer("Invalid password")
                /\ cache' = users
                /\ UNCHANGED <<usersFile, issued>>
           ELSE /\ user = <<>> => Len(issued) < MaxCreates
                /\ cache' = [users EXCEPT ![phone] = <<coded>>]
                /\ usersFile' = _save_all(cache')
                /\ issued' = IF user = <<>> THEN Append(issued, base.user_id) ELSE issued
                /\ lastUser' = answer("ok")
        /\ UserFrame

\* Faulty variant of Redeemed: the code stays on the record.
RedeemedKeepingCode(user) == [user EXCEPT !.verified = TRUE]

\* verify_email_code: the record after a successful verification.
Redeemed(user) ==
    [user EXCEPT !.verified = TRUE, !.verification_code_hash = <<>>,
                 !.verification_expires_at = <<>>]

\* UserAuthManager.verify_email_code
verify_email_code(phone, code) ==
    LET users == _load_all
        user == users[phone]
        answer(status, id) == UserAnswer("verify_email_code", phone, status, id)
    IN  /\ IF user = <<>> \/ user[1].verification_code_hash = <<>>
           THEN /\ lastUser' = answer("No verification requested", 0)
                /\ cache' = users
                /\ UNCHANGED usersFile
           ELSE IF /\ user[1].verification_expires_at /= <<>>
                   /\ now > user[1].verification_expires_at[1]
           THEN /\ lastUser' = answer("Code expired", 0)
                /\ cache' = users
                /\ UNCHANGED usersFile
           ELSE IF user[1].verification_code_hash[1] /= Hash(code)
           THEN /\ lastUser' = answer("Invalid code", 0)
                /\ cache' = users
                /\ UNCHANGED usersFile
           ELSE /\ cache' = [users EXCEPT ![phone] = <<Redeemed(user[1])>>]
                /\ usersFile' = _save_all(cache')
                /\ lastUser' = answer("ok", user[1].user_id)
        /\ UNCHANGED issued
        /\ UserFrame

\* UserAuthManager.update_profile, for one of its optional fields
update_profile(user_id, full_name) ==
    LET users == _load_all
        found == {p \in UserPhones : users[p] /= <<>> /\ users[p][1].user_id = user_id}
    IN  /\ IF found = {}
           THEN /\ lastUser' = UserAnswer("update_profile", "", "User not found", 0)
                /\ cache' = users
                /\ UNCHANGED usersFile
           ELSE LET phone == CHOOSE p \in found : TRUE
                IN  /\ cache' = [users EXCEPT ![phone] =
                                     <<[@[1] EXCEPT !.full_name =
                                            IF full_name /= <<>> THEN full_name ELSE @]>>]
                    /\ usersFile' = _save_all(cache')
                    /\ lastUser' = UserAnswer("update_profile", phone, "ok", user_id)
        /\ UNCHANGED issued
        /\ UserFrame

\* The process is started again: the cache is empty, the users file stays.
Restart ==
    /\ cache' = NoUsers
    /\ lastUser' = UserAnswer("restart", "", "ok", 0)
    /\ UNCHANGED <<usersFile, issued>>
    /\ UserFrame

\* The process dies inside _save_all, which writes the users file in
\* place: the file is left cut short, and the next process cannot load it.
crash_in_save_all ==
    /\ usersFile' = Unreadable
    /\ cache' = NoUsers
    /\ lastUser' = UserAnswer("crash", "", "ok", 0)
    /\ UNCHANGED issued
    /\ UserFrame

\* ------------------------------------------ recent locations, the list
\* LocationsManager.get_locations on a file that loads
get_locations == IF locFile = <<>> THEN <<>> ELSE _sanitize_list(locFile[1])

\* LocationsManager.add_location
add_location(location) ==
    LET cleaned == _sanitize_location(location)
        deduped == SelectSeq(get_locations, LAMBDA l : Lower(l) /= Lower(cleaned))
        new_list == <<cleaned>> \o deduped
    IN  /\ locFile' = IF cleaned = <<>> THEN locFile
                      ELSE IF Len(new_list) > max_items
                      THEN <<SubSeq(new_list, 1, max_items)>>
                      ELSE <<new_list>>
        /\ UNCHANGED <<draftVars, authVars, loginVars, lastDelete, incLocal, incDone,
                       fileVars, cache, usersFile, issued, lastUser, lastOrganize, callVars>>

\* ------------------------------------------------- requests that overlap
\* The server runs the plain handlers on a pool of worker threads and the
\* async ones on its event loop; nothing in the managers takes a lock.  A
\* call of a caller advances statement by statement.
Callers == {1, 2}
\* The largest number of calls the callers make in one run.
MaxCalls == 4

\* A call in progress.  own is <<>> while the caller's local variable names
\* the object the manager has cached, and <<object>> when it names an
\* object that is not (or no longer) the cached one.
Call(op, pc, own, arg) == [op |-> op, pc |-> pc, own |-> own, arg |-> arg]

\* A call that has returned; got tells whether manager.finalize handed it
\* the session.
Returned(op, status, ret, got) == [op |-> op, status |-> status, ret |-> ret, got |-> got]

InFlight == {c \in Callers : thr[c] /= <<>>}

MayStart(c) == thr[c] = <<>> /\ Len(done) + Cardinality(InFlight) < MaxCalls

InitCalls ==
    /\ thr = [c \in Callers |-> <<>>]
    /\ done = <<>>
    /\ book = [u \in Users |-> <<>>]
    /\ lastContact = [op |-> "init", id |-> 0, result |-> FALSE]

\* Caller c replaces or removes the cached object old: the other callers
\* that hold it keep it, as an object of their own.
Detach(c, old) ==
    [d \in Callers |->
        IF d /= c /\ thr[d] /= <<>> /\ thr[d][1].own = <<>>
        THEN <<[thr[d][1] EXCEPT !.own = old]>>
        ELSE thr[d]]

\* The session the local variable of caller c names.
Deref(c, u) == IF thr[c][1].own = <<>> THEN sessions[u][1] ELSE thr[c][1].own[1]

\* The async handlers (add_photo, finalize_report) are coroutines of one
\* event loop: between two of its awaits a coroutine is not interleaved
\* with another coroutine, only with the threads of the plain handlers.
\* add_photo awaits file.read() after it validated item_id, finalize_report
\* awaits logo.read() after it found the session.
AsyncOps == {"add_photo", "finalize_report"}

AtAwait(call) ==
    \/ call.op = "add_photo" /\ call.pc = "attach"
    \/ call.op = "finalize_report" /\ call.pc = "found"

\* Caller c may execute the next statement of a call of handler op.
Runs(c, op) ==
    op \in AsyncOps =>
        \A d \in Callers \ {c} :
            (thr[d] /= <<>> /\ thr[d][1].op \in AsyncOps) => AtAwait(thr[d][1])

CallFrame ==
    UNCHANGED <<authVars, loginVars, lastDelete, incLocal, incDone, fileVars, dirVars,
                book, lastContact>>

\* The first statement of the handlers of add_item, add_photo, finalize
\* and cancel: session = report_manager.get_session(user_id), up to the
\* point where a session read from the draft file is about to be cached.
begin(c, u, op) ==
    /\ MayStart(c)
    /\ Runs(c, op)
    /\ IF sessions[u] /= <<>>
       THEN /\ thr' = [thr EXCEPT ![c] = <<Call(op, "found", <<>>, <<>>)>>]
            /\ UNCHANGED done
       ELSE IF draftFile[u] /= <<>>
       THEN /\ thr' = [thr EXCEPT ![c] =
                          <<Call(op, "cache", <<from_dict(draftFile[u][1])>>, <<>>)>>]
            /\ UNCHANGED done
       ELSE /\ done' = Append(done, Returned(op, NoActiveReport, <<>>, FALSE))
            /\ UNCHANGED thr
    /\ UNCHANGED <<draftVars>>
    /\ CallFrame

\* get_session: self._sessions[user_id] = session
cache_loaded(c, u) ==
    /\ thr[c] /= <<>>
    /\ thr[c][1].pc = "cache"
    /\ Runs(c, thr[c][1].op)
    /\ sessions' = [sessions EXCEPT ![u] = thr[c][1].own]
    /\ thr' = [Detach(c, sessions[u]) EXCEPT ![c] =
                  <<[thr[c][1] EXCEPT !.pc = "found", !.own = <<>>]>>]
    /\ UNCHANGED <<draftFile, tempFiles, reportDirs, index, stats, nextItemId,
                   nextPhotoId, nextReportId, req, last, done>>
    /\ CallFrame

ItemDescription == <<5>>

\* ReportManager.add_item: session = self._sessions[user_id] and the item
\* built, its number read from the length of session.items.
item_number(c, u) ==
    /\ thr[c] /= <<>>
    /\ thr[c][1].op = "add_item"
    /\ thr[c][1].pc = "found"
    /\ IF sessions[u] = <<>>
       THEN /\ thr' = [thr EXCEPT ![c] = <<>>]
            /\ done' = Append(done, Returned("add_item", "KeyError", <<>>, FALSE))
            /\ UNCHANGED nextItemId
       ELSE /\ nextItemId <= MaxItemIds
            /\ thr' = [thr EXCEPT ![c] =
                          <<Call("add_item", "append", <<>>,
                                 <<ReportItem(Hex(nextItemId), next_number(sessions[u][1]),
                                              ItemDescription, <<>>)>>)>>]
            /\ nextItemId' = nextItemId + 1
            /\ UNCHANGED done
    /\ UNCHANGED <<sessions, draftFile, tempFiles, reportDirs, index, stats,
                   nextPhotoId, nextReportId, req, last>>
    /\ CallFrame

AppendItem(session, item) == [session EXCEPT !.items = Append(@, item)]

\* ReportManager.add_item: session.items.append(item)
item_append(c, u) ==
    /\ thr[c] /= <<>>
    /\ thr[c][1].pc = "append"
    /\ IF thr[c][1].own = <<>>
       THEN /\ sessions' = [sessions EXCEPT ![u] = <<AppendItem(@[1], thr[c][1].arg[1])>>]
            /\ thr' = [thr EXCEPT ![c] = <<[@[1] EXCEPT !.pc = "save"]>>]
       ELSE /\ thr' = [thr EXCEPT ![c] =
                          <<[@[1] EXCEPT !.pc = "save",
                                         !.own = <<AppendItem(@[1], thr[c][1].arg[1])>>]>>]
            /\ UNCHANGED sessions
    /\ UNCHANGED <<draftFile, tempFiles, reportDirs, index, stats, nextItemId,
                   nextPhotoId, nextReportId, req, last, done>>
    /\ CallFrame

\* ReportManager.add_item: self._save_session(session); then the handler
\* counts the item and answers with its id and number.
item_save(c, u) ==
    /\ thr[c] /= <<>>
    /\ thr[c][1].pc = "save"
    /\ draftFile' = [draftFile EXCEPT ![u] = SaveSession(Deref(c, u))]
    /\ stats' = Increment(u, "items_added")
    /\ done' = Append(done, Returned("add_item", "ok", thr[c][1].arg, FALSE))
    /\ thr' = [thr EXCEPT ![c] = <<>>]
    /\ UNCHANGED <<sessions, tempFiles, reportDirs, index, nextItemId, nextPhotoId,
                   nextReportId, req, last>>
    /\ CallFrame

InitStore ==
    /\ lastDelete = [report_id |-> 0, result |-> FALSE]
    /\ incLocal = [w \in Workers |-> <<>>]
    /\ incDone = 0
    /\ files = [st \in FileStores |-> <<>>]
    /\ tmpFile = <<>>
    /\ saving = <<>>
    /\ lastLoad = [store |-> "", status |-> "init", from |-> <<>>, value |-> <<>>]
    /\ InitDir
    /\ InitCalls

\* add_photo up to its await: item_id checked against the items of the
\* session get_session returned, and the path of the photo file chosen.
photo_validate(c, u, rawItemId) ==
    /\ thr[c] /= <<>>
    /\ thr[c][1].op = "add_photo"
    /\ thr[c][1].pc = "found"
    /\ Runs(c, "add_photo")
    /\ nextPhotoId <= MaxPhotoIds
    /\ thr' = [thr EXCEPT ![c] =
                  <<[@[1] EXCEPT !.pc = "attach",
                                 !.arg = <<NormalizeItemId(Deref(c, u), rawItemId),
                                           nextPhotoId>>]>>]
    /\ nextPhotoId' = nextPhotoId + 1
    /\ UNCHANGED <<sessions, draftFile, tempFiles, reportDirs, index, stats, nextItemId,
                   nextReportId, req, last, done>>
    /\ CallFrame

\* add_photo after its await: the file written, ReportManager.add_photo
\* (session = self._sessions[user_id], append, save), the counter.
photo_attach(c, u) ==
    /\ thr[c] /= <<>>
    /\ thr[c][1].pc = "attach"
    /\ Runs(c, "add_photo")
    /\ tempFiles' = [tempFiles EXCEPT ![u] = @ \cup {thr[c][1].arg[2]}]
    /\ IF sessions[u] = <<>>
       THEN /\ done' = Append(done, Returned("add_photo", "KeyError", <<>>, FALSE))
            /\ UNCHANGED <<sessions, draftFile, stats>>
       ELSE LET session == AddPhoto(sessions[u][1], Hex(thr[c][1].arg[2]),
                                    user_temp_dir(u) \o <<thr[c][1].arg[2]>>,
                                    thr[c][1].arg[1])
            IN  /\ sessions' = [sessions EXCEPT ![u] = <<session>>]
                /\ draftFile' = [draftFile EXCEPT ![u] = SaveSession(session)]
                /\ stats' = Increment(u, "photos_added")
                /\ done' = Append(done, Returned("add_photo", "ok", <<>>, FALSE))
    /\ thr' = [thr EXCEPT ![c] = <<>>]
    /\ UNCHANGED <<reportDirs, index, nextItemId, nextPhotoId, nextReportId, req, last>>
    /\ CallFrame

\* ReportManager.finalize, called by finalize_report and cancel_report:
\* session = self._sessions.pop(user_id)
finalize_pop(c, u) ==
    /\ thr[c] /= <<>>
    /\ thr[c][1].op \in {"finalize_report", "cancel_report"}
    /\ thr[c][1].pc = "found"
    /\ Runs(c, thr[c][1].op)
    /\ IF sessions[u] = <<>>
       THEN /\ done' = Append(done, Returned(thr[c][1].op, "KeyError", <<>>, FALSE))
            /\ thr' = [thr EXCEPT ![c] = <<>>]
            /\ UNCHANGED sessions
       ELSE /\ sessions' = [sessions EXCEPT ![u] = <<>>]
            /\ thr' = [Detach(c, sessions[u]) EXCEPT ![c] =
                          <<[thr[c][1] EXCEPT !.pc = "unlink", !.own = sessions[u]]>>]
            /\ UNCHANGED done
    /\ UNCHANGED <<draftFile, tempFiles, reportDirs, index, stats, nextItemId,
                   nextPhotoId, nextReportId, req, last>>
    /\ CallFrame

\* ReportManager.finalize: the draft file unlinked; cancel_report returns.
finalize_unlink(c, u) ==
    /\ thr[c] /= <<>>
    /\ thr[c][1].pc = "unlink"
    /\ Runs(c, thr[c][1].op)
    /\ draftFile' = [draftFile EXCEPT ![u] = <<>>]
    /\ IF thr[c][1].op = "cancel_report"
       THEN /\ done' = Append(done, Returned("cancel_report", "ok", <<>>, TRUE))
            /\ thr' = [thr EXCEPT ![c] = <<>>]
       ELSE /\ thr' = [thr EXCEPT ![c] = <<[@[1] EXCEPT !.pc = "save_report"]>>]
            /\ UNCHANGED done
    /\ UNCHANGED <<sessions, tempFiles, reportDirs, index, stats, nextItemId,
                   nextPhotoId, nextReportId, req, last>>
    /\ CallFrame

\* save_report up to the ReportSummary it fails to build: the content
\* directory with the document, the copied photos and report.json.
SavedDir(u, report_id, session) ==
    [doc |-> TRUE,
     photosDir |-> TRUE,
     photos |-> {PathName(session.photos[i].file_path) :
                    i \in {j \in 1..Len(session.photos) : Exists(session.photos[j].file_path)}},
     report_json |-> <<to_dict([session EXCEPT !.photos =
                          [i \in 1..Len(session.photos) |->
                              CopyPhoto(u, report_id, session.photos[i])]])>>]

\* finalize_report after manager.finalize: the document rendered,
\* save_report run to its AttributeError.
finalize_save(c, u) ==
    /\ thr[c] /= <<>>
    /\ thr[c][1].pc = "save_report"
    /\ Runs(c, "finalize_report")
    /\ nextReportId <= MaxReports
    /\ reportDirs' = [reportDirs EXCEPT ![u] =
                         [r \in (DOMAIN @) \cup {nextReportId} |->
                             IF r = nextReportId
                             THEN SavedDir(u, nextReportId, thr[c][1].own[1])
                             ELSE @[r]]]
    /\ nextReportId' = nextReportId + 1
    /\ done' = Append(done, Returned("finalize_report", "AttributeError", <<nextReportId>>, TRUE))
    /\ thr' = [thr EXCEPT ![c] = <<>>]
    /\ UNCHANGED <<sessions, draftFile, tempFiles, index, stats, nextItemId, nextPhotoId,
                   req, last>>
    /\ CallFrame

\* ----------------------------------------- create_user calls that overlap
RegisterFrame ==
    UNCHANGED <<draftVars, authVars, loginVars, lastDelete, incLocal, incDone, fileVars,
                lastUser, locFile, lastOrganize, book, lastContact>>

\* The dict the local variable users of caller c names.
DerefUsers(c) == IF thr[c][1].own = <<>> THEN cache ELSE thr[c][1].own[1]

\* create_user: users = self._load_all(), which hands out the cached dict
\* when it holds a user and otherwise installs a new dict as the cache;
\* then the duplicate check, _next_user_id and the record.
create_load(c, phone) ==
    /\ MayStart(c)
    /\ cache' = _load_all
    /\ IF PhoneTaken(_load_all, phone)
       THEN /\ done' = Append(done, Returned("create_user", "User already exists",
                                             <<phone, 0>>, FALSE))
            /\ thr' = IF cache = NoUsers THEN Detach(c, <<cache>>) ELSE thr
       ELSE /\ thr' = [(IF cache = NoUsers THEN Detach(c, <<cache>>) ELSE thr) EXCEPT ![c] =
                          <<Call("create_user", "insert", <<>>,
                                 <<UserRecord(_next_user_id(_load_all), phone, <<>>,
                                              Hash("pw"))>>)>>]
            /\ UNCHANGED done
    /\ UNCHANGED <<usersFile, issued>>
    /\ RegisterFrame

\* create_user: users[phone] = record
create_insert(c) ==
    /\ thr[c] /= <<>>
    /\ thr[c][1].pc = "insert"
    /\ IF thr[c][1].own = <<>>
       THEN /\ cache' = [cache EXCEPT ![thr[c][1].arg[1].phone] = thr[c][1].arg]
            /\ thr' = [thr EXCEPT ![c] = <<[@[1] EXCEPT !.pc = "save_all"]>>]
       ELSE /\ thr' = [thr EXCEPT ![c] =
                          <<[@[1] EXCEPT !.pc = "save_all",
                                         !.own = <<[@[1] EXCEPT ![thr[c][1].arg[1].phone] =
                                                       thr[c][1].arg]>>]>>]
            /\ UNCHANGED cache
    /\ UNCHANGED <<usersFile, issued, done>>
    /\ RegisterFrame

\* create_user: self._save_all(users), which writes the file and makes
\* users the cache; return record
create_save(c) ==
    /\ thr[c] /= <<>>
    /\ thr[c][1].pc = "save_all"
    /\ usersFile' = _save_all(DerefUsers(c))
    /\ cache' = DerefUsers(c)
    /\ thr' = [(IF thr[c][1].own = <<>> THEN thr ELSE Detach(c, <<cache>>)) EXCEPT ![c] = <<>>]
    /\ issued' = Append(issued, thr[c][1].arg[1].user_id)
    /\ done' = Append(done, Returned("create_user", "ok",
                                     <<thr[c][1].arg[1].phone, thr[c][1].arg[1].user_id>>, FALSE))
    /\ RegisterFrame

\* A process that holds a draft: on file, and cached unless the process
\* has just been started again.
InitActive ==
    /\ sessions \in {[u \in Users |-> <<>>], [u \in Users |-> <<NewSession(u, <<7>>, "")>>]}
    /\ draftFile = [u \in Users |-> SaveSession(NewSession(u, <<7>>, ""))]
    /\ tempFiles = [u \in Users |-> {}]
    /\ reportDirs = [u \in Users |-> <<>>]
    /\ index = [u \in Users |-> <<>>]
    /\ stats = [u \in Users |-> <<>>]
    /\ nextItemId = 1
    /\ nextPhotoId = 1
    /\ nextReportId = 1
    /\ req = [u \in Users |-> <<>>]
    /\ last = Outcome("init", 0, "ok", <<>>)
    /\ InitAuth /\ InitLogin /\ InitStore

Init == InitDraft /\ InitAuth /\ InitLogin /\ InitStore

\* An archive that holds one report when the process starts: its row in the
\* index file and its content directory, written by an earlier run.
ArchivedId == 1

ArchivedSession == NewSession(1, <<7>>, "")

ArchivedRow ==
    [report_id |-> ArchivedId,
     location |-> ArchivedSession.location,
     template_key |-> ArchivedSession.template_key,
     title |-> ArchivedSession.title,
     folder |-> <<>>,
     project_name |-> <<>>,
     tags |-> <<>>]

ArchivedDir ==
    [doc |-> TRUE, photosDir |-> TRUE, photos |-> {}, report_json |-> <<to_dict(ArchivedSession)>>]

\* ------------------------------------------------- organize, append a row
\* The largest number of report ids an archive run draws.
MaxRows == 3

Folders == {<<>>, <<5>>}
TagLists == {<<>>, << <<6>> >>}

\* Faulty variant of Organized: the row is changed whatever its id.
OrganizedAny(summary, rid, folder, tags) == [summary EXCEPT !.folder = folder, !.tags = tags]

\* update_organize, the loop body: the row with the id gets folder and tags.
Organized(summary, rid, folder, tags) ==
    IF summary.report_id = rid
    THEN [summary EXCEPT !.folder = folder, !.tags = tags]
    ELSE summary

\* ReportStore.update_organize
update_organize(u, rid, folder, tags) ==
    LET summaries == list_reports(u)
        updated == [i \in 1..Len(summaries) |-> Organized(summaries[i], rid, folder, tags)]
        hits == {i \in 1..Len(summaries) : summaries[i].report_id = rid}
        result == IF hits = {} THEN <<>>
                  ELSE <<updated[CHOOSE i \in hits : \A j \in hits : j <= i]>>
    IN  /\ Idle(u)
        /\ index' = IF result /= <<>> THEN [index EXCEPT ![u] = <<updated>>] ELSE index
        /\ lastOrganize' = [report_id |-> rid, folder |-> folder, tags |-> tags,
                            result |-> result]
        /\ UNCHANGED <<sessions, draftFile, tempFiles, reportDirs, stats, nextItemId,
                       nextPhotoId, nextReportId, req, last>>
        /\ UNCHANGED <<lastDelete, incLocal, incDone, fileVars, cache, usersFile, issued,
                       lastUser, locFile, callVars>>

\* ReportStore._append_summary, called with the summary of a report saved
\* under a fresh id.
append_summary(u) ==
    /\ Idle(u)
    /\ nextReportId <= MaxRows
    /\ index' = AppendSummary(u, [ArchivedRow EXCEPT !.report_id = nextReportId])
    /\ nextReportId' = nextReportId + 1
    /\ UNCHANGED <<sessions, draftFile, tempFiles, reportDirs, stats, nextItemId,
                   nextPhotoId, req, last>>

\* ------------------------------- organize and delete calls that overlap
\* update_organize: summaries = self.list_reports(user_id)
organize_read(c, u, rid, folder, tags) ==
    /\ MayStart(c)
    /\ thr' = [thr EXCEPT ![c] =
                  <<Call("update_organize", "write", <<list_reports(u)>>, <<rid, folder, tags>>)>>]
    /\ UNCHANGED <<draftVars, done>>
    /\ CallFrame

\* update_organize: the loop over the summaries it read, _save_index if
\* the id was among them, and the return.
organize_write(c, u) ==
    /\ thr[c] /= <<>>
    /\ thr[c][1].op = "update_organize"
    /\ LET summaries == thr[c][1].own[1]
           arg == thr[c][1].arg
           updated == [i \in 1..Len(summaries) |-> Organized(summaries[i], arg[1], arg[2], arg[3])]
           found == \E i \in 1..Len(summaries) : summaries[i].report_id = arg[1]
       IN  /\ index' = IF found THEN [index EXCEPT ![u] = <<updated>>] ELSE index
           /\ done' = Append(done, Returned("update_organize",
                                            IF found THEN "ok" ELSE "404 Report not found",
                                            <<arg[1]>>, FALSE))
    /\ thr' = [thr EXCEPT ![c] = <<>>]
    /\ UNCHANGED <<sessions, draftFile, tempFiles, reportDirs, stats, nextItemId,
                   nextPhotoId, nextReportId, req, last>>
    /\ CallFrame

\* delete_report: summaries = self.list_reports(user_id)
delete_read(c, u, rid) ==
    /\ MayStart(c)
    /\ thr' = [thr EXCEPT ![c] = <<Call("delete_report", "write", <<list_reports(u)>>, <<rid>>)>>]
    /\ UNCHANGED <<draftVars, done>>
    /\ CallFrame

\* delete_report: the summaries it read without the report, False if none
\* was dropped, _save_index otherwise.
delete_write(c, u) ==
    /\ thr[c] /= <<>>
    /\ thr[c][1].op = "delete_report"
    /\ thr[c][1].pc = "write"
    /\ LET rid == thr[c][1].arg[1]
           kept == SelectSeq(thr[c][1].own[1], LAMBDA x : x.report_id /= rid)
       IN  IF Len(kept) = Len(thr[c][1].own[1])
           THEN /\ done' = Append(done, Returned("delete_report", "False", <<rid>>, FALSE))
                /\ thr' = [thr EXCEPT ![c] = <<>>]
                /\ UNCHANGED index
           ELSE /\ index' = [index EXCEPT ![u] = <<kept>>]
                /\ thr' = [thr EXCEPT ![c] = <<[@[1] EXCEPT !.pc = "rmtree"]>>]
                /\ UNCHANGED done
    /\ UNCHANGED <<sessions, draftFile, tempFiles, reportDirs, stats, nextItemId,
                   nextPhotoId, nextReportId, req, last>>
    /\ CallFrame

\* delete_report: shutil.rmtree(report_dir); return True
delete_remove(c, u) ==
    /\ thr[c] /= <<>>
    /\ thr[c][1].pc = "rmtree"
    /\ reportDirs' = [reportDirs EXCEPT ![u] = RemoveDir(@, thr[c][1].arg[1])]
    /\ done' = Append(done, Returned("delete_report", "True", thr[c][1].arg, FALSE))
    /\ thr' = [thr EXCEPT ![c] = <<>>]
    /\ UNCHANGED <<sessions, draftFile, tempFiles, index, stats, nextItemId, nextPhotoId,
                   nextReportId, req, last>>
    /\ CallFrame

InitArchive ==
    /\ sessions = [u \in Users |-> <<>>]
    /\ draftFile = [u \in Users |-> <<>>]
    /\ tempFiles = [u \in Users |-> {}]
    /\ reportDirs = [u \in Users |-> [r \in {ArchivedId} |-> ArchivedDir]]
    /\ index = [u \in Users |-> << <<ArchivedRow>> >>]
    /\ stats = [u \in Users |-> <<>>]
    /\ nextItemId = 1
    /\ nextPhotoId = 1
    /\ nextReportId = ArchivedId + 1
    /\ req = [u \in Users |-> <<>>]
    /\ last = Outcome("init", 0, "ok", <<>>)
    /\ InitAuth /\ InitLogin /\ InitStore


Next ==
    \/ \E u \in Users, l \in Locations, t \in TemplateKeys :
            create_session(u, l, t) /\ UNCHANGED <<authVars, loginVars, storeVars>>
    \/ \E u \in Users : start_report(u) /\ UNCHANGED <<authVars, loginVars, storeVars>>
    \/ \E u \in Users : get_active_session(u) /\ UNCHANGED <<authVars, loginVars, storeVars>>
    \/ \E u \in Users, d \in Descriptions, n \in NotesValues, a \in AllowEmpty :
            add_item(u, d, n, a) /\ UNCHANGED <<authVars, loginVars, storeVars>>
    \/ \E u \in Users, i \in IssuedItemIds \cup {UnknownId}, d \in UpdateDescriptions,
           n \in NotesValues : update_item(u, Hex(i), d, n) /\ UNCHANGED <<authVars, loginVars, storeVars>>
    \/ \E u \in Users, i \in ItemIdForms : add_photo(u, i) /\ UNCHANGED <<authVars, loginVars, storeVars>>
    \/ \E u \in Users, c \in ContactPayloads :
            set_contacts(u, c.attendees, c.distribution_list) /\ UNCHANGED <<authVars, loginVars, storeVars>>
    \/ \E u \in Users : cancel_report(u) /\ UNCHANGED <<authVars, loginVars, storeVars>>
    \/ \E u \in Users : finalize_report(u) /\ UNCHANGED <<authVars, loginVars, storeVars>>
    \/ \E u \in Users : save_copy_docx(u) /\ UNCHANGED <<authVars, loginVars, storeVars>>
    \/ \E u \in Users : save_mkdir_photos(u) /\ UNCHANGED <<authVars, loginVars, storeVars>>
    \/ \E u \in Users : save_copy_photo(u) /\ UNCHANGED <<authVars, loginVars, storeVars>>
    \/ \E u \in Users : save_write_snapshot(u) /\ UNCHANGED <<authVars, loginVars, storeVars>>
    \/ \E u \in Users : save_summary(u) /\ UNCHANGED <<authVars, loginVars, storeVars>>
    \/ \E u \in Users : finalize_report_pdf(u) /\ UNCHANGED <<authVars, loginVars, storeVars>>
    \/ \E u \in Users, r \in ReportIdInputs : open_report(u, r) /\ UNCHANGED <<authVars, loginVars, storeVars>>
    \/ \E d \in Snapshots : load_from_report(d) /\ UNCHANGED <<authVars, loginVars, storeVars>>
    \/ \E u \in Users, r \in ReportIdInputs : delete_report(u, r) /\ UNCHANGED <<authVars, loginVars, storeVars>>
    \/ Crash /\ UNCHANGED <<authVars, loginVars, storeVars>>

Spec == Init /\ [][Next]_vars

NextAuth ==
    \/ \E a \in AuthActions, c \in ClientHosts, p \in Phones : check_auth_rate_limit(a, c, p)
    \/ \E d \in TickSteps : Tick(d)

SpecAuth == Init /\ [][NextAuth]_vars

NextArchive ==
    \/ \E u \in Users, r \in ReportIdInputs :
            delete_index_write(u, r) /\ UNCHANGED <<authVars, loginVars>>
    \/ \E u \in Users : delete_rmtree(u) /\ UNCHANGED <<authVars, loginVars>>
    \/ \E d \in Snapshots : load_from_report(d) /\ UNCHANGED <<authVars, loginVars, storeVars>>
    \/ \E u \in Users, d \in Descriptions, n \in NotesValues, a \in AllowEmpty :
            add_item(u, d, n, a) /\ UNCHANGED <<authVars, loginVars, storeVars>>
    \/ \E u \in Users, i \in ItemIdForms :
            add_photo(u, i) /\ UNCHANGED <<authVars, loginVars, storeVars>>
    \/ \E u \in Users : cancel_report(u) /\ UNCHANGED <<authVars, loginVars, storeVars>>
    \/ Crash /\ UNCHANGED <<authVars, loginVars, storeVars>>

SpecArchive == InitArchive /\ [][NextArchive]_vars

\* The calls that write the index of an archive.
NextIndex ==
    \/ \E u \in Users, r \in ReportIdInputs, f \in Folders, t \in TagLists :
            update_organize(u, r, f, t) /\ UNCHANGED <<authVars, loginVars>>
    \/ \E u \in Users : append_summary(u) /\ UNCHANGED <<authVars, loginVars, storeVars>>
    \/ \E u \in Users, r \in ReportIdInputs :
            delete_index_write(u, r) /\ UNCHANGED <<authVars, loginVars>>
    \/ \E u \in Users : delete_rmtree(u) /\ UNCHANGED <<authVars, loginVars>>
    \/ Crash /\ UNCHANGED <<authVars, loginVars, storeVars>>

SpecIndex == InitArchive /\ [][NextIndex]_vars

NextThreads ==
    \/ \E w \in Workers, u \in Users : increment_get(w, u)
    \/ \E w \in Workers, u \in Users : increment_save(w, u, "items_added")

SpecThreads == Init /\ [][NextThreads]_vars

NextFiles ==
    \/ \E st \in Stores : \E text \in SaveTexts(st) : save_open(st, text)
    \/ save_write
    \/ save_close
    \/ CrashInSave
    \/ \E st \in Stores : load(st)

SpecFiles == Init /\ [][NextFiles]_vars

\* A store whose file holds any text at all when the program starts.
InitCorrupt ==
    /\ InitDraft /\ InitAuth /\ InitLogin
    /\ lastDelete = [report_id |-> 0, result |-> FALSE]
    /\ incLocal = [w \in Workers |-> <<>>]
    /\ incDone = 0
    /\ \/ \E text \in Texts(ContactsAlphabet) :
              files = [st \in FileStores |-> IF st = "contacts" THEN <<text>> ELSE <<>>]
       \/ \E text \in Texts(StatsAlphabet) :
              files = [st \in FileStores |-> IF st = "stats" THEN <<text>> ELSE <<>>]
       \/ \E text \in Texts(LocationsAlphabet) :
              files = [st \in FileStores |-> IF st = "locations" THEN <<text>> ELSE <<>>]
    /\ tmpFile = <<>>
    /\ saving = <<>>
    /\ lastLoad = [store |-> "", status |-> "init", from |-> <<>>, value |-> <<>>]
    /\ InitDir
    /\ InitCalls

NextCorrupt ==
    \/ load("contacts")
    \/ load("stats")
    \/ load("locations")

SpecCorrupt == InitCorrupt /\ [][NextCorrupt]_vars

NextUsers ==
    \/ \E p \in UserPhones, pw \in Passwords, e \in {<<>>, <<"a@x.io">>} : create_user(p, pw, e)
    \/ \E p \in UserPhones, e \in Emails, pw \in Passwords, c \in Codes :
            request_email_code(p, e, pw, c)
    \/ \E p \in UserPhones, c \in Codes : verify_email_code(p, c)
    \/ \E i \in 1..MaxCreates, n \in FullNames : update_profile(i, n)
    \/ Restart
    \/ crash_in_save_all
    \/ \E t \in {CodeLifetime, CodeLifetime + 1} : AdvanceTo(t)

SpecUsers == Init /\ [][NextUsers]_vars

NextLocations == \E l \in LocationInputs : add_location(l)

SpecLocations == Init /\ [][NextLocations]_vars

\* Calls of add_item that overlap, on a draft.
NextItems ==
    \/ \E c \in Callers, u \in Users : begin(c, u, "add_item")
    \/ \E c \in Callers, u \in Users : cache_loaded(c, u)
    \/ \E c \in Callers, u \in Users : item_number(c, u)
    \/ \E c \in Callers, u \in Users : item_append(c, u)
    \/ \E c \in Callers, u \in Users : item_save(c, u)

SpecItems == InitActive /\ [][NextItems]_vars

\* add_photo next to cancel and add_item.
NextPhoto ==
    \/ \E c \in Callers, u \in Users : begin(c, u, "add_photo")
    \/ \E c \in Callers, u \in Users : begin(c, u, "cancel_report")
    \/ \E c \in Callers, u \in Users : begin(c, u, "add_item")
    \/ \E c \in Callers, u \in Users : cache_loaded(c, u)
    \/ \E c \in Callers, u \in Users : item_number(c, u)
    \/ \E c \in Callers, u \in Users : item_append(c, u)
    \/ \E c \in Callers, u \in Users : item_save(c, u)
    \/ \E c \in Callers, u \in Users, i \in IssuedItemIds :
            photo_validate(c, u, Hex(i))
    \/ \E c \in Callers, u \in Users : photo_validate(c, u, NoneText)
    \/ \E c \in Callers, u \in Users : photo_attach(c, u)
    \/ \E c \in Callers, u \in Users : finalize_pop(c, u)
    \/ \E c \in Callers, u \in Users : finalize_unlink(c, u)

SpecPhoto == InitActive /\ [][NextPhoto]_vars

\* finalize next to finalize and cancel.
NextFinalize ==
    \/ \E c \in Callers, u \in Users : begin(c, u, "finalize_report")
    \/ \E c \in Callers, u \in Users : begin(c, u, "cancel_report")
    \/ \E c \in Callers, u \in Users : cache_loaded(c, u)
    \/ \E c \in Callers, u \in Users : finalize_pop(c, u)
    \/ \E c \in Callers, u \in Users : finalize_unlink(c, u)
    \/ \E c \in Callers, u \in Users : finalize_save(c, u)

SpecFinalize == InitActive /\ [][NextFinalize]_vars

\* update_organize next to delete_report, on an archive.
NextRace ==
    \/ \E c \in Callers, u \in Users, r \in ReportIdInputs, f \in Folders, t \in TagLists :
            organize_read(c, u, r, f, t)
    \/ \E c \in Callers, u \in Users : organize_write(c, u)
    \/ \E c \in Callers, u \in Users, r \in ReportIdInputs : delete_read(c, u, r)
    \/ \E c \in Callers, u \in Users : delete_write(c, u)
    \/ \E c \in Callers, u \in Users : delete_remove(c, u)

SpecRace == InitArchive /\ [][NextRace]_vars

\* create_user calls of two callers.
NextRegister ==
    \/ \E c \in Callers, p \in UserPhones : create_load(c, p)
    \/ \E c \in Callers : create_insert(c)
    \/ \E c \in Callers : create_save(c)

SpecRegister == Init /\ [][NextRegister]_vars

\* ------------------------------------------- contacts manager of src/data
\* book[u] is the list get_contacts(u) returns: the cached list, which
\* save_contacts also writes to the user's file after every change.  The
\* id "c<n>_<user_id>" of a contact of user_id is written n.
\* The largest number of contacts a user holds in a run.
MaxContacts == 4

\* ContactsManager.generate_id
generate_id(u) == Len(book[u]) + 1

HasContact(u, contact_id) == \E i \in 1..Len(book[u]) : book[u][i] = contact_id

\* ContactsManager.add_contact with a contact of the given id
add_contact(u, contact_id) ==
    /\ Len(book[u]) < MaxContacts
    /\ book' = IF HasContact(u, contact_id) THEN book
               ELSE [book EXCEPT ![u] = Append(@, contact_id)]
    /\ lastContact' = [op |-> "add_contact", id |-> contact_id,
                       result |-> ~HasContact(u, contact_id)]
    /\ UNCHANGED <<draftVars, authVars, loginVars, lastDelete, incLocal, incDone,
                   fileVars, dirVars, thr, done>>

\* ContactsManager.delete_contact
delete_contact(u, contact_id) ==
    /\ book' = [book EXCEPT ![u] = SelectSeq(@, LAMBDA c : c /= contact_id)]
    /\ lastContact' = [op |-> "delete_contact", id |-> contact_id,
                       result |-> HasContact(u, contact_id)]
    /\ UNCHANGED <<draftVars, authVars, loginVars, lastDelete, incLocal, incDone,
                   fileVars, dirVars, thr, done>>

\* Contacts are added under the id generate_id has just returned, and
\* deleted by any id.
NextContacts ==
    \/ \E u \in Users : add_contact(u, generate_id(u))
    \/ \E u \in Users, i \in 1..(MaxContacts + 1) : delete_contact(u, i)

SpecContacts == Init /\ [][NextContacts]_vars

\* The methods of ReportManager, each called as the first call made after
\* the process started, or later.
NextReload ==
    \/ \E u \in Users : get_active_session(u) /\ UNCHANGED <<authVars, loginVars, storeVars>>
    \/ \E u \in Users : manager_add_item(u) /\ UNCHANGED <<authVars, loginVars, storeVars>>
    \/ \E u \in Users : manager_add_photo(u) /\ UNCHANGED <<authVars, loginVars, storeVars>>
    \/ \E u \in Users, c \in ContactPayloads :
            set_contacts(u, c.attendees, c.distribution_list)
                /\ UNCHANGED <<authVars, loginVars, storeVars>>
    \/ \E u \in Users, i \in IssuedItemIds \cup {UnknownId}, d \in UpdateDescriptions,
           n \in NotesValues :
            update_item(u, Hex(i), d, n) /\ UNCHANGED <<authVars, loginVars, storeVars>>
    \/ \E u \in Users : manager_finalize(u) /\ UNCHANGED <<authVars, loginVars, storeVars>>
    \/ Crash /\ UNCHANGED <<authVars, loginVars, storeVars>>

SpecReload == InitActive /\ [][NextReload]_vars

NextLogin ==
    \/ \E c \in ClientHosts, p \in LoginPhones, pw \in Passwords : login(c, p, pw)
    \/ \E t \in LoginInstants : AdvanceTo(t)

SpecLogin == Init /\ [][NextLogin]_vars

\* ================================================================= claims
Absent(u) == sessions[u] = <<>> /\ draftFile[u] = <<>>

\* ---------------------------------------------------------------------- C1
ItemsNumbered(items) == \A i \in 1..Len(items) : items[i].number = Str(i)

C1_Numbered ==
    \A u \in Users :
        /\ sessions[u] /= <<>> => ItemsNumbered(sessions[u][1].items)
        /\ draftFile[u] /= <<>> => ItemsNumbered(draftFile[u][1].items)

C1_NumbersKept ==
    \A u \in Users :
        (sessions[u] /= <<>> /\ sessions'[u] /= <<>>) =>
            LET old == sessions[u][1].items
                new == sessions'[u][1].items
            IN  \A i \in 1..Len(old), j \in 1..Len(new) :
                    old[i].id = new[j].id => (j = i /\ new[j].number = old[i].number)

\* C1: in every draft, cached or on file, the i-th item carries the number
\* str(i), whatever update_item, add_photo and set_contacts calls come in
\* between, and no step changes the position or number of an existing item.
C1_ItemNumbers == []C1_Numbered /\ [][C1_NumbersKept]_vars

\* Two items, the first one updated since, a photo and contacts in the draft.
C1_Witness ==
    \E u \in Users :
        /\ sessions[u] /= <<>>
        /\ Len(sessions[u][1].items) = 2
        /\ sessions[u][1].items[1].description = <<8>>
        /\ sessions[u][1].items[2].number = <<2>>
        /\ Len(sessions[u][1].photos) >= 1
        /\ sessions[u][1].attendees /= <<>>

\* ---------------------------------------------------------------------- C3
SnapshotPathsInside ==
    \A u \in Users : \A rid \in DOMAIN reportDirs[u] :
        reportDirs[u][rid].report_json /= <<>> =>
            \A i \in 1..Len(reportDirs[u][rid].report_json[1].photos) :
                InDir(reportDirs[u][rid].report_json[1].photos[i].file_path,
                      user_report_data_dir(u, rid) \o <<"photos">>)

ClosingStep(u) ==
    /\ ~Absent(u)
    /\ cancel_report(u) \/ finalize_report(u) \/ finalize_report_pdf(u)

C4_Closed(u) == ClosingStep(u) => (Absent(u)' /\ get_session(u)' = <<>>)

\* C4 as stated: a closing call leaves no cached session and no draft
\* file, and an absent draft becomes active only by create_session.
C4_AbsentUntilStart ==
    [][\A u \in Users :
          /\ C4_Closed(u)
          /\ (Absent(u) /\ ~Absent(u)') =>
                \E l \in Locations, t \in TemplateKeys : create_session(u, l, t)]_vars

\* C4 amended: a closing call leaves no cached session and no draft file,
\* and an absent draft becomes active only by create_session or by
\* load_from_report.
C4_AbsentUntilStartOrOpen ==
    [][\A u \in Users :
          /\ C4_Closed(u)
          /\ (Absent(u) /\ ~Absent(u)') =>
                \/ \E l \in Locations, t \in TemplateKeys : create_session(u, l, t)
                \/ \E d \in Snapshots : load_from_report(d)]_vars

\* A draft that existed has just been cancelled.
C4_Witness ==
    \E u \in Users :
        /\ last = [op |-> "cancel_report", status |-> "ok", had |-> TRUE]
        /\ Absent(u)
        /\ get_session(u) = <<>>

\* ---------------------------------------------------------------------- C5
C5_Replaced(u, l, t) ==
    (~Absent(u) /\ create_session(u, l, t)) =>
        /\ sessions'[u] /= <<>>
        /\ sessions'[u][1].items = <<>>
        /\ sessions'[u][1].photos = <<>>
        /\ draftFile'[u] /= <<>>
        /\ draftFile'[u][1].items = <<>>
        /\ draftFile'[u][1].photos = <<>>
        /\ UNCHANGED <<index, reportDirs>>
        /\ last'.status = "ok"

\* C5: create_session on a user with a draft is never refused, and it
\* leaves a draft with no items and no photos, cached and on file, and the
\* archive (index and content directories) as it was.
C5_StartReplaces ==
    /\ [](\A u \in Users : (~Absent(u) /\ Idle(u)) =>
              \A l \in Locations, t \in TemplateKeys : ENABLED create_session(u, l, t))
    /\ [][\A u \in Users, l \in Locations, t \in TemplateKeys : C5_Replaced(u, l, t)]_vars

\* create_session has just replaced a draft, after an item and a photo had
\* been added to some draft.
C5_Witness ==
    \E u \in Users :
        /\ last = [op |-> "create_session", status |-> "ok", had |-> TRUE]
        /\ sessions[u] /= <<>>
        /\ sessions[u][1].items = <<>>
        /\ nextItemId > 1
        /\ nextPhotoId > 1

\* ---------------------------------------------------------------------- C6
\* C6: whenever a session is cached, the draft file holds its to_dict form.
C6_FileEqualsSession ==
    \A u \in Users : sessions[u] /= <<>> => draftFile[u] = <<to_dict(sessions[u][1])>>

\* A cached draft with an item, a photo and contacts, just saved by set_contacts.
C6_Witness ==
    \E u \in Users :
        /\ last.op = "set_contacts" /\ last.status = "ok"
        /\ sessions[u] /= <<>>
        /\ Len(sessions[u][1].items) >= 1
        /\ Len(sessions[u][1].photos) >= 1
        /\ sessions[u][1].attendees /= <<>>

\* ---------------------------------------------------------------------- C7
\* C7: the item_id of every photo of a draft is None or the id of an item
\* of that draft.
C7_PhotoItemIds ==
    \A u \in Users :
        sessions[u] /= <<>> =>
            \A i \in 1..Len(sessions[u][1].photos) :
                \/ sessions[u][1].photos[i].item_id = NoneText
                \/ \E j \in 1..Len(sessions[u][1].items) :
                        sessions[u][1].items[j].id = sessions[u][1].photos[i].item_id

\* ---------------------------------------------------------------------- C8
DraftCall(u) ==
    \/ \E d \in Descriptions, n \in NotesValues, a \in AllowEmpty : add_item(u, d, n, a)
    \/ \E i \in ItemIdForms : add_photo(u, i)
    \/ \E c \in ContactPayloads : set_contacts(u, c.attendees, c.distribution_list)
    \/ \E i \in IssuedItemIds \cup {UnknownId}, d \in UpdateDescriptions, n \in NotesValues :
            update_item(u, Hex(i), d, n)
    \/ finalize_report(u)
    \/ finalize_report_pdf(u)
    \/ cancel_report(u)

\* C8: with no cached session and no draft file, add_item, add_photo,
\* set_contacts, update_item, finalize and cancel answer "No active report"
\* and leave the draft store, the uploads, the archive and the counters
\* as they were.
C8_NoActiveSession ==
    [][\A u \in Users :
          (Absent(u) /\ DraftCall(u)) =>
              /\ last'.status = NoActiveReport
              /\ UNCHANGED <<sessions, draftFile, tempFiles, reportDirs, index, stats, req>>]_vars

\* finalize has just been refused for a user without a draft, after items
\* had been added to an earlier draft.
C8_Witness ==
    \E u \in Users :
        /\ last = [op |-> "finalize_report", status |-> NoActiveReport, had |-> FALSE]
        /\ Absent(u)
        /\ stats[u] /= <<>>

\* ---------------------------------------------------------------------- C9
\* number of attempts let through for the key in the trailing window of t
RecentAccepted(key, t) ==
    Cardinality({i \in 1..Len(acceptedLog[key]) :
                    t - acceptedLog[key][i] <= _RATE_WINDOW_SECONDS})

C9_AtMostMax ==
    \A k \in RateKeys :
        \A i \in 1..(Len(acceptedLog[k]) - _RATE_MAX_PER_WINDOW) :
            acceptedLog[k][i + _RATE_MAX_PER_WINDOW] - acceptedLog[k][i] > _RATE_WINDOW_SECONDS

C9_Refused ==
    \A a \in AuthActions, c \in ClientHosts, p \in Phones :
        (/\ RecentAccepted(RateKey(a, c, p), now) >= _RATE_MAX_PER_WINDOW
         /\ check_auth_rate_limit(a, c, p)) =>
            /\ lastAuth'.status = TooManyRequests
            /\ acceptedLog' = acceptedLog

\* C9: an attempt on a key that has 5 attempts let through in the trailing
\* 60 seconds is refused, so any 6 attempts let through on one key span
\* more than 60 seconds.
C9_RateLimited == []C9_AtMostMax /\ [][C9_Refused]_vars

\* The sixth attempt made exactly 60 seconds after five let through at once
\* has just been refused.
C9_Witness ==
    \E k \in RateKeys :
        /\ lastAuth = [key |-> k, status |-> TooManyRequests, at |-> _RATE_WINDOW_SECONDS]
        /\ acceptedLog[k] = <<0, 0, 0, 0, 0>>
        /\ now = _RATE_WINDOW_SECONDS

\* --------------------------------------------------------------------- C10
C10_Step(a, c, p) ==
    LET key == RateKey(a, c, p)
    IN  check_auth_rate_limit(a, c, p) =>
            IF RecentAccepted(key, now) < _RATE_MAX_PER_WINDOW
            THEN /\ lastAuth'.status = "ok"
                 /\ acceptedLog'[key] = Append(acceptedLog[key], now)
                 /\ RATE_LIMITS'[key] /= <<>>
                 /\ RATE_LIMITS'[key][1] = Append(WindowEntries(key, now), now)
            ELSE /\ lastAuth'.status = TooManyRequests
                 /\ RATE_LIMITS' = RATE_LIMITS

\* C10: an attempt on a key with fewer than 5 attempts let through in the
\* trailing 60 seconds is let through and recorded, and a refused attempt
\* leaves the recorded attempts as they were.
C10_AcceptedAndRecorded ==
    [][\A a \in AuthActions, c \in ClientHosts, p \in Phones : C10_Step(a, c, p)]_vars

\* Five attempts at once, one refused 30 seconds later, and the sixth let
\* through 61 seconds after the first, the refused one never recorded.
C10_Witness ==
    \E k \in RateKeys :
        /\ acceptedLog[k] = <<0, 0, 0, 0, 0, _RATE_WINDOW_SECONDS + 1>>
        /\ rejectedAt[k] = 30
        /\ RATE_LIMITS[k] = <<(<<_RATE_WINDOW_SECONDS + 1>>)>>
        /\ lastAuth.status = "ok"

\* --------------------------------------------------------------------- C11
\* failures of the key recorded since its failures were last removed that
\* lie in the lockout window ending at t
InWindowFails(key, t) ==
    Cardinality({i \in 1..Len(failTimes[key]) :
                    failTimes[key][i] >= t - _LOCKOUT_WINDOW_SECONDS})

\* the fifth in-window failure sets the lock to 600 seconds after it
C11_LockSet ==
    \A c \in ClientHosts, p \in LoginPhones, pw \in Passwords :
        (/\ login(c, p, pw)
         /\ lastLogin'.status = InvalidLogin
         /\ InWindowFails(_login_key(c, p), now)' >= _LOCKOUT_THRESHOLD) =>
            LOGIN_LOCKS'[_login_key(c, p)] = <<now + _LOCKOUT_DURATION_SECONDS>>

\* a lock that has not expired is not moved and not removed
C11_LockStays ==
    \A k \in LoginKeys :
        (LOGIN_LOCKS[k] /= <<>> /\ now' < LOGIN_LOCKS[k][1]) =>
            LOGIN_LOCKS'[k] = LOGIN_LOCKS[k]

C11_Refused(answers) ==
    \A c \in ClientHosts, p \in LoginPhones, pw \in Passwords :
        (/\ login(c, p, pw)
         /\ LOGIN_LOCKS[_login_key(c, p)] /= <<>>
         /\ now < LOGIN_LOCKS[_login_key(c, p)][1]) =>
            /\ lastLogin'.status \in answers
            /\ UNCHANGED <<FAILED_LOGINS, LOGIN_LOCKS>>

\* C11 as stated: the fifth failure recorded for (A, X) within 600 seconds
\* locks the key until 600 seconds after it, and every login for (A, X)
\* before that instant is answered "Too many failed attempts", whatever its
\* password.
C11_RefusedAsLocked ==
    [][C11_LockSet /\ C11_LockStays /\ C11_Refused({LockedOut})]_vars

\* C11 amended: the fifth failure recorded for (A, X) within 600 seconds
\* locks the key until 600 seconds after it, and every login for (A, X)
\* before that instant is refused, whatever its password: by the rate
\* limiter when it refuses the call, as locked otherwise.
C11_RefusedWhileLocked ==
    [][C11_LockSet /\ C11_LockStays /\ C11_Refused({LockedOut, TooManyRequests})]_vars

\* A login with the right password, one second before the lock set by five
\* failures at time 0 expires, has just been refused as locked.
C11_Witness ==
    \E k \in LoginKeys :
        /\ lastLogin = [key |-> k, good |-> TRUE, at |-> _LOCKOUT_DURATION_SECONDS - 1,
                        lock |-> <<_LOCKOUT_DURATION_SECONDS>>, status |-> LockedOut]
        /\ failTimes[k] = <<0, 0, 0, 0, 0>>
        /\ LOGIN_LOCKS[k] = <<_LOCKOUT_DURATION_SECONDS>>

\* --------------------------------------------------------------------- C12
C12_LockNeedsFive ==
    \A k \in LoginKeys :
        LOGIN_LOCKS[k] /= <<>> =>
            InWindowFails(k, LOGIN_LOCKS[k][1] - _LOCKOUT_DURATION_SECONDS) >= _LOCKOUT_THRESHOLD

C12_SuccessClears ==
    \A c \in ClientHosts, p \in LoginPhones, pw \in Passwords :
        (login(c, p, pw) /\ lastLogin'.status = "ok") =>
            /\ FAILED_LOGINS'[_login_key(c, p)] = <<>>
            /\ LOGIN_LOCKS'[_login_key(c, p)] = <<>>

\* C12: a successful login leaves no recorded failure and no lock for its
\* key, and a key is locked only when 5 failures have been recorded for it,
\* within the window, since its failures were last removed.
C12_CountRestarts == []C12_LockNeedsFive /\ [][C12_SuccessClears]_vars

\* Four failures, a successful login that removed them, and then the five
\* failures that locked the key.
C12_Witness ==
    \E k \in LoginKeys :
        /\ clearedWith[k] = _LOCKOUT_THRESHOLD - 1
        /\ LOGIN_LOCKS[k] /= <<>>
        /\ Len(failTimes[k]) = _LOCKOUT_THRESHOLD

\* --------------------------------------------------------------------- C13
C13_Check ==
    \A k \in LoginKeys :
        LockExpired(k, now) =>
            /\ ~is_login_locked(k, now)
            /\ LocksAfterCheck(k, now)[k] = <<>>
            /\ FailuresAfterCheck(k, now)[k] = <<>>

C13_Login ==
    \A c \in ClientHosts, p \in LoginPhones, pw \in Passwords :
        (/\ login(c, p, pw)
         /\ LockExpired(_login_key(c, p), now)
         /\ lastLogin'.status /= TooManyRequests) =>
            /\ lastLogin'.status \in {"ok", InvalidLogin}
            /\ LOGIN_LOCKS'[_login_key(c, p)] = <<>>
            /\ FAILED_LOGINS'[_login_key(c, p)] =
                   IF lastLogin'.status = "ok" THEN <<>> ELSE << <<now>> >>

\* C13: at or after the expiry of a lock, is_login_locked answers not
\* locked and leaves neither the lock nor any failure of the key, so the
\* login that made the check is judged on its password and a failed one
\* counts as the first failure.
C13_ExpiredLockRemoved == []C13_Check /\ [][C13_Login]_vars

\* A wrong password at the very instant the lock expires: answered 401,
\* the lock gone and one failure on record.
C13_Witness ==
    \E k \in LoginKeys :
        /\ lastLogin = [key |-> k, good |-> FALSE, at |-> _LOCKOUT_DURATION_SECONDS,
                        lock |-> <<_LOCKOUT_DURATION_SECONDS>>, status |-> InvalidLogin]
        /\ LOGIN_LOCKS[k] = <<>>
        /\ FAILED_LOGINS[k] = << <<_LOCKOUT_DURATION_SECONDS>> >>

\* --------------------------------------------------------------------- C14
\* C14: delete_report for an id that has no row in the index returns False
\* and changes nothing: not the index, not a content directory (that of
\* the id itself, when one exists, included), not any other store.
C14_DeleteUnknown ==
    [][\A u \in Users, r \in ReportIdInputs :
          (~Indexed(u, r) /\ delete_report(u, r)) =>
              /\ last'.status = "False"
              /\ UNCHANGED <<sessions, draftFile, tempFiles, reportDirs, index, stats,
                             nextItemId, nextPhotoId, nextReportId, req>>]_vars

\* delete_report has just returned False while a content directory without
\* an index row, left by a save that did not complete, is still in place.
C14_Witness ==
    \E u \in Users :
        /\ last.op = "delete_report" /\ last.status = "False"
        /\ \E r \in DOMAIN reportDirs[u] :
              ~Indexed(u, r) /\ reportDirs[u][r].report_json /= <<>>

\* --------------------------------------------------------------------- C15
\* C15: once a delete_report call for the archived report has returned,
\* be it the first call or a retry after an interrupted one, the report has
\* no row in the index and no content directory.
C15_RetryCompletes ==
    \A u \in Users :
        lastDelete.report_id = ArchivedId =>
            /\ ~Indexed(u, ArchivedId)
            /\ ArchivedId \notin DOMAIN reportDirs[u]

\* --------------------------------------------------------------------- C16
\* C16: when no increment call is in progress, the stats file counts every
\* increment call that has returned.
C16_NoLostUpdate ==
    \A u \in Users :
        (\A w \in Workers : incLocal[w] = <<>>) => StatsGet(u).items_added = incDone

\* C17: StatsManager.save writes a temp file and renames it over the stats
\* file, so at every moment, a crash in the middle of a save included, the
\* stats file is absent or holds one complete record, and it only ever
\* changes from the previous record to the whole new one.
C17_StatsFileWhole ==
    files["stats"] = <<>> \/ files["stats"][1] \in SaveTexts("stats")

C17_StatsReplaced ==
    files'["stats"] /= files["stats"]
        => saving /= <<>> /\ files'["stats"] = <<saving[1].text>>

C17_StatsSaveAtomic == [](C17_StatsFileWhole) /\ [][C17_StatsReplaced]_vars

C17_Witness ==
    /\ lastLoad.status = "crash" /\ lastLoad.store = "stats"
    /\ tmpFile /= <<>> /\ tmpFile[1] \notin SaveTexts("stats") /\ tmpFile[1] /= <<>>
    /\ files["stats"] /= <<>>

\* C18: after a crash, the file of every other store (contacts, draft
\* session, report index, users) is absent or holds one complete record.
C18_OtherFilesWhole ==
    saving = <<>> =>
        \A st \in Stores \ {"stats"} : files[st] = <<>> \/ files[st][1] \in SaveTexts(st)

\* C20: no load of a store surfaces an error to its caller.
C20_NoLoadRaises == lastLoad.status /= "raises"

\* C19: get_contacts on any file text never raises; what it returns is the
\* empty list or the contacts that are elements of the list between the
\* first "[" and the last "]" of the file, and every entry returned is a
\* valid Contact.
C19_Entries(text) ==
    SelectSeq(Elements(SubSeq(text, Find(text, LBracket), RFind(text, RBracket))),
              LAMBDA e : e.t = "contact")

C19_NeverRaises ==
    lastLoad.store = "contacts" =>
        /\ lastLoad.status \in {"ok", "recovered", "empty"}
        /\ \A i \in 1..Len(lastLoad.value) : lastLoad.value[i].t = "contact"
        /\ \/ lastLoad.value = <<>>
           \/ lastLoad.value = C19_Entries(lastLoad.from[1])

C19_Witness ==
    /\ lastLoad.store = "contacts" /\ lastLoad.status = "recovered"
    /\ lastLoad.from /= <<>> /\ JsonShape(lastLoad.from[1]) = "error"
    /\ lastLoad.value /= <<>>
    /\ Len(lastLoad.value) < Len(lastLoad.from[1]) - 2
    /\ files["contacts"] = <<DumpList(lastLoad.value)>>

\* --------------------------------------------------------------------- C21
\* C21: no two users of the directory share a user_id, and the ids that
\* create_user returns grow strictly, so no id is handed out twice, a reload
\* of a users file that fails to load included.
C21_IdsNeverReused ==
    /\ \A i, j \in 1..Len(issued) : i < j => issued[i] < issued[j]
    /\ \A p, q \in UserPhones :
          (p /= q /\ _load_all[p] /= <<>> /\ _load_all[q] /= <<>>)
              => _load_all[p][1].user_id /= _load_all[q][1].user_id

\* --------------------------------------------------------------------- C22
\* C22: create_user with a registered phone fails with "User already exists"
\* and leaves the users the directory holds and the users file as they
\* were; with an unregistered phone it adds one unverified user under that
\* phone, changes no other user and writes the directory to the users file.
C22_Step(p) ==
    (\E pw \in Passwords, e \in {<<>>, <<"a@x.io">>} : create_user(p, pw, e)) =>
        IF _load_all[p] /= <<>>
        THEN /\ lastUser'.status = "User already exists"
             /\ _load_all' = _load_all
             /\ usersFile' = usersFile
        ELSE /\ lastUser'.status = "ok"
             /\ _load_all'[p] /= <<>>
             /\ _load_all'[p][1].phone = p
             /\ ~_load_all'[p][1].verified
             /\ \A q \in UserPhones \ {p} : _load_all'[q] = _load_all[q]
             /\ usersFile' = <<[ok |-> TRUE, users |-> _load_all']>>

C22_CreateUser == [][\A p \in UserPhones : C22_Step(p)]_vars

C22_Witness ==
    /\ lastUser.op = "create_user" /\ lastUser.status = "User already exists"
    /\ \A p \in UserPhones : _load_all[p] /= <<>>

\* --------------------------------------------------------------------- C23
\* C23: verify_email_code fails with "No verification requested" when the
\* phone has no user or no code hash, else with "Code expired" when the time
\* is past the expiry, else with "Invalid code" when the code does not
\* match, and each failure leaves the record and the users file as they
\* were; otherwise it sets verified and clears the code hash and the expiry.
C23_Step(p, c) ==
    verify_email_code(p, c) =>
        LET user == _load_all[p]
            same == _load_all' = _load_all /\ usersFile' = usersFile
        IN  IF user = <<>> \/ user[1].verification_code_hash = <<>>
            THEN lastUser'.status = "No verification requested" /\ same
            ELSE IF now > user[1].verification_expires_at[1]
            THEN lastUser'.status = "Code expired" /\ same
            ELSE IF user[1].verification_code_hash[1] /= <<"bcrypt", c>>
            THEN lastUser'.status = "Invalid code" /\ same
            ELSE /\ lastUser'.status = "ok"
                 /\ _load_all'[p][1].verified
                 /\ _load_all'[p][1].verification_code_hash = <<>>
                 /\ _load_all'[p][1].verification_expires_at = <<>>
                 /\ \A q \in UserPhones \ {p} : _load_all'[q] = _load_all[q]

C23_VerifyCode == [][\A p \in UserPhones, c \in Codes : C23_Step(p, c)]_vars

\* a code is refused after it was redeemed, and a user of the directory
\* holds a code that has expired
C23_Witness ==
    /\ lastUser.op = "verify_email_code"
    /\ lastUser.status = "No verification requested"
    /\ _load_all[lastUser.phone] /= <<>>
    /\ _load_all[lastUser.phone][1].verified
    /\ \E q \in UserPhones :
          /\ _load_all[q] /= <<>>
          /\ _load_all[q][1].verification_expires_at /= <<>>
          /\ now > _load_all[q][1].verification_expires_at[1]

\* --------------------------------------------------------------------- C24
Verified(users, p) == users[p] /= <<>> /\ users[p][1].verified

\* a verified user stays verified as long as the users file can be loaded,
\* and verified is set by a successful verify_email_code only
C24_FlipsOnce(p) ==
    /\ (Verified(_load_all, p) /\ usersFile' /= Unreadable) => Verified(_load_all', p)
    /\ (~Verified(_load_all, p) /\ Verified(_load_all', p))
          => lastUser' = [op |-> "verify_email_code", phone |-> p, status |-> "ok",
                          user_id |-> _load_all'[p][1].user_id]

\* C24 as stated: the flag flips once, and request_email_code on a verified
\* user fails with "User already verified" and changes nothing.
C24_AlreadyVerified ==
    [][\A p \in UserPhones :
          /\ C24_FlipsOnce(p)
          /\ \A e \in Emails, pw \in Passwords, c \in Codes :
                (request_email_code(p, e, pw, c) /\ Verified(_load_all, p))
                    => /\ lastUser'.status = "User already verified"
                       /\ _load_all' = _load_all /\ usersFile' = usersFile]_vars

\* C24, amended: the flag flips once, and request_email_code on a verified
\* user fails, with "Invalid email" when the email is not a valid address
\* and with "User already verified" otherwise, and changes nothing.
C24_VerifiedOrInvalidEmail ==
    [][\A p \in UserPhones :
          /\ C24_FlipsOnce(p)
          /\ \A e \in Emails, pw \in Passwords, c \in Codes :
                (request_email_code(p, e, pw, c) /\ Verified(_load_all, p))
                    => /\ lastUser'.status = IF e = "bad" THEN "Invalid email"
                                              ELSE "User already verified"
                       /\ _load_all' = _load_all /\ usersFile' = usersFile]_vars

C24_Witness ==
    /\ lastUser.op = "request_email_code"
    /\ lastUser.status = "User already verified"
    /\ Verified(_load_all, lastUser.phone)

\* --------------------------------------------------------------------- C25
\* C25: the finalize request of a draft with no items ends well, with the
\* draft removed and the report in the index.
C25_EmptyFinalizeArchived ==
    [][\A u \in Users :
          (/\ req[u] /= <<>> /\ req'[u] = <<>>
           /\ req[u][1].session.items = <<>>
           /\ last'.op = "finalize_report")
              => /\ last'.status = "ok"
                 /\ Absent(u)'
                 /\ index'[u] /= <<>>
                 /\ \E i \in 1..Len(index'[u][1]) :
                        index'[u][1][i].report_id = req[u][1].report_id]_vars

\* --------------------------------------------------------------------- C28
\* the files of the users: drafts, photos, index, counters, and the content
\* directories that hold something
Persisted ==
    <<draftFile, tempFiles, index, stats,
      [u \in Users |->
          [r \in {x \in DOMAIN reportDirs[u] : reportDirs[u][x] /= EmptyDir} |->
              reportDirs[u][r]]]>>

\* C28: a request of a state-changing route that has changed a file or a
\* directory has appended an audit event by the time it ends.
C28_ChangeIsLogged ==
    [][(/\ last'.op \in DOMAIN AuditEvent
        /\ \A u \in Users : req'[u] = <<>>
        /\ Persisted' /= Persisted \/ \E u \in Users : req[u] /= <<>>)
           => LoggedEvent(last') /= <<>>]_vars

\* --------------------------------------------------------------------- C30
\* C30: from the moment the finalize request has closed the draft until it
\* ends, the user has no draft, in memory or on file; and when the request
\* ends in an error the user has no draft and the index has no row for the
\* report.
C30_FailedStep(u) ==
    (/\ req[u] /= <<>> /\ req'[u] = <<>>
     /\ last'.op = "finalize_report" /\ last'.status /= "ok")
        => /\ Absent(u)'
           /\ \A i \in 1..Len(list_reports(u)') :
                  list_reports(u)'[i].report_id /= req[u][1].report_id

C30_CloseThenArchive ==
    /\ [](\A u \in Users : req[u] /= <<>> => Absent(u))
    /\ [][\A u \in Users : C30_FailedStep(u)]_vars

C30_Witness ==
    /\ last.op = "finalize_report" /\ last.status = "AttributeError"
    /\ \A u \in Users :
          /\ Absent(u)
          /\ list_reports(u) = <<>>
          /\ \E r \in DOMAIN reportDirs[u] : reportDirs[u][r].report_json /= <<>>

\* --------------------------------------------------------------------- C26
\* C26: update_organize changes the folder and the tags of the index row
\* with the id and returns that row, leaving every other row, the order of
\* the rows, the other fields of the row and every content directory as
\* they were; for an id without a row it returns None and writes nothing.
C26_Step(u, r, f, t) ==
    update_organize(u, r, f, t) =>
        LET before == list_reports(u)
            after == list_reports(u)'
        IN  /\ reportDirs' = reportDirs
            /\ IF \E i \in 1..Len(before) : before[i].report_id = r
               THEN /\ Len(after) = Len(before)
                    /\ \A i \in 1..Len(before) :
                          IF before[i].report_id = r
                          THEN /\ after[i] = [before[i] EXCEPT !.folder = f, !.tags = t]
                               /\ lastOrganize'.result = <<after[i]>>
                          ELSE after[i] = before[i]
               ELSE /\ index' = index
                    /\ lastOrganize'.result = <<>>

C26_OrganizeOnlyRow ==
    [][\A u \in Users, r \in ReportIdInputs, f \in Folders, t \in TagLists :
          C26_Step(u, r, f, t)]_vars

\* a row has just been organized while another row still has no folder
C26_Witness ==
    /\ lastOrganize.result /= <<>>
    /\ lastOrganize.folder /= <<>>
    /\ \E u \in Users :
          /\ Len(list_reports(u)) >= 2
          /\ \E i \in 1..Len(list_reports(u)) :
                /\ list_reports(u)[i].report_id /= lastOrganize.report_id
                /\ list_reports(u)[i].folder = <<>>

C29_SameIgnoringCase(a, b) ==
    /\ Len(a) = Len(b)
    /\ \A i \in 1..Len(a) :
          a[i] = b[i] \/ a[i] = b[i] + max_items + 1 \/ b[i] = a[i] + max_items + 1

C29_Listed == IF locFile = <<>> THEN <<>> ELSE locFile[1]

C29_Bounded ==
    /\ Len(C29_Listed) <= max_items
    /\ \A i, j \in 1..Len(C29_Listed) :
          i /= j => ~C29_SameIgnoringCase(C29_Listed[i], C29_Listed[j])

\* what add_location of a text that is not blank leaves: the text, without
\* the blanks around it, in front of the entries that were listed, in their
\* order and without the one that equals it ignoring case, cut to max_items
C29_Step(l) ==
    add_location(l) =>
        IF \A i \in 1..Len(l) : l[i] = 0
        THEN locFile' = locFile
        ELSE LET before == C29_Listed
                 after == C29_Listed'
                 kept == SelectSeq(before, LAMBDA x : ~C29_SameIgnoringCase(x, after[1]))
             IN  /\ after /= <<>>
                 /\ after[1] = SelectSeq(l, LAMBDA c : c /= 0)
                 /\ Len(after) = IF Len(kept) + 1 > max_items
                                 THEN max_items ELSE Len(kept) + 1
                 /\ \A i \in 2..Len(after) : after[i] = kept[i - 1]

\* C29: the list of recent locations never holds more than max_items
\* entries nor two entries equal ignoring case, every add_location puts its
\* location in front of the others (an entry equal to it ignoring case is
\* dropped from its old place), and a blank location changes nothing.
C29_RecentLocations ==
    /\ [](C29_Bounded)
    /\ [][\A l \in LocationInputs : C29_Step(l)]_vars

\* the list is full and a listed location has come back to the front in
\* the other case
C29_Witness ==
    /\ Len(C29_Listed) = max_items
    /\ C29_Listed[1] = <<Upper(1)>>
    /\ C29_Listed[2] = <<max_items + 1>>

\* --------------------------------------------------------------------- C31
\* the items the add_item calls have answered with
C31_Answered == {done[i].ret[1] : i \in {j \in 1..Len(done) : done[j].status = "ok"}}

\* C31: once the add_item calls of a user have returned, overlapping or
\* not, the items of the draft are numbered 1..n without gap or repeat,
\* and every item a call answered with is in the cached session and in the
\* draft file.
C31_OverlappingAdds ==
    \A u \in Users :
        (InFlight = {} /\ sessions[u] /= <<>>) =>
            /\ ItemsNumbered(sessions[u][1].items)
            /\ draftFile[u] /= <<>>
            /\ ItemsNumbered(from_dict(draftFile[u][1]).items)
            /\ \A item \in C31_Answered :
                  /\ \E i \in 1..Len(sessions[u][1].items) : sessions[u][1].items[i].id = item.id
                  /\ \E i \in 1..Len(from_dict(draftFile[u][1]).items) :
                        from_dict(draftFile[u][1]).items[i].id = item.id

\* --------------------------------------------------------------------- C32
\* C32: whatever requests of the user run next to an add_photo, the call
\* does not fail with an unhandled KeyError because the session is gone
\* when the photo is attached, and every photo of an Active session names,
\* if any, an item of that session.
C32_PhotoOnItsSession ==
    /\ \A i \in 1..Len(done) : done[i].op = "add_photo" => done[i].status /= "KeyError"
    /\ \A u \in Users :
          sessions[u] /= <<>> =>
              \A i \in 1..Len(sessions[u][1].photos) :
                  \/ sessions[u][1].photos[i].item_id = NoneText
                  \/ \E j \in 1..Len(sessions[u][1].items) :
                        sessions[u][1].items[j].id = sessions[u][1].photos[i].item_id

\* --------------------------------------------------------------------- C33
\* C33: of the finalize and cancel calls made on one draft, at most one is
\* handed the session by manager.finalize, and at most one content
\* directory and one index row come of the draft.
C33_OneObtainsSession ==
    /\ Cardinality({i \in 1..Len(done) : done[i].got})
         + Cardinality({c \in InFlight : thr[c][1].pc \in {"unlink", "save_report"}}) <= 1
    /\ \A u \in Users :
          /\ Cardinality(DOMAIN reportDirs[u]) <= 1
          /\ Len(list_reports(u)) <= 1

\* --------------------------------------------------------------------- C34
\* C34: a report whose delete_report call has returned True has no row in
\* the index, whatever update_organize calls ran next to the delete.
C34_DeletedStaysAbsent ==
    \A u \in Users : \A i \in 1..Len(done) :
        (done[i].op = "delete_report" /\ done[i].status = "True") =>
            ~Indexed(u, done[i].ret[1])

\* --------------------------------------------------------------------- C35
\* the phone and user_id of every user a create_user call has returned
C35_Created ==
    {done[i].ret : i \in {j \in 1..Len(done) :
                            done[j].op = "create_user" /\ done[j].status = "ok"}}

\* C35: once the create_user calls have returned, overlapping or not, the
\* users created for different phones have different user_ids and each of
\* them is in the users file.
C35_OverlappingCreates ==
    InFlight = {} =>
        /\ \A a, b \in C35_Created : a[1] /= b[1] => a[2] /= b[2]
        /\ \A a \in C35_Created :
              usersFile /= <<>> /\ usersFile[1].ok /\ usersFile[1].users[a[1]] /= <<>>

\* --------------------------------------------------------------------- C36
\* C36: a ReportManager method called for a user whose draft is on file,
\* cached or not, does not fail for want of a session, and the session a
\* process holds equals the one its draft file loads as.
C36_ReloadedAfterRestart ==
    /\ last.had => last.status \notin {"KeyError", NoActiveReport}
    /\ \A u \in Users :
          (sessions[u] /= <<>> /\ draftFile[u] /= <<>>) =>
              from_dict(draftFile[u][1]) = sessions[u][1]

\* --------------------------------------------------------------------- C37
\* C37: when a load of contacts, stats or locations recovered its record
\* from a corrupted file, the record is on file when the load returns: the
\* next load parses the file strictly and returns the same record.
C37_RecoveredWrittenBack ==
    lastLoad.status = "recovered" =>
        /\ LoadStore(lastLoad.store, files[lastLoad.store]).status = "ok"
        /\ LoadStore(lastLoad.store, files[lastLoad.store]).value = lastLoad.value

\* The same for the two stores whose load saves what it recovered.
C37_ContactsAndStats ==
    lastLoad.store \in {"contacts", "stats"} => C37_RecoveredWrittenBack

\* --------------------------------------------------------------------- C38
\* a lock on file was set by the last failure recorded for its key, to 600
\* seconds after it
C38_ExpiryFixed ==
    \A k \in LoginKeys :
        LOGIN_LOCKS[k] /= <<>> =>
            /\ failTimes[k] /= <<>>
            /\ LOGIN_LOCKS[k][1] = failTimes[k][Len(failTimes[k])] + _LOCKOUT_DURATION_SECONDS

\* a login before the expiry of the lock of its key records nothing and
\* moves nothing; a login at the expiry or later is not answered as locked
C38_Attempt ==
    \A c \in ClientHosts, p \in LoginPhones, pw \in Passwords :
        (login(c, p, pw) /\ LOGIN_LOCKS[_login_key(c, p)] /= <<>>) =>
            IF now < LOGIN_LOCKS[_login_key(c, p)][1]
            THEN /\ FAILED_LOGINS'[_login_key(c, p)] = FAILED_LOGINS[_login_key(c, p)]
                 /\ LOGIN_LOCKS'[_login_key(c, p)] = LOGIN_LOCKS[_login_key(c, p)]
                 /\ failTimes'[_login_key(c, p)] = failTimes[_login_key(c, p)]
                 /\ lastLogin'.status \in {LockedOut, TooManyRequests}
            ELSE lastLogin'.status /= LockedOut

\* C38: a login made for (A, X) while its lock has not expired records no
\* failure and leaves the lock's expiry where it is, and the lock ends
\* exactly 600 seconds after the failure that set it: a login at that
\* instant is no longer refused as locked.
C38_LockNotExtended == []C38_ExpiryFixed /\ [][C38_Attempt]_vars

\* Five failures at time 0 set the lock to 600; a login at 599 was taken
\* (it is in the rate window) and recorded nothing; the login with a wrong
\* password at 600 found the lock expired and is the one failure on record.
C38_Witness ==
    \E c \in ClientHosts, p \in LoginPhones :
        /\ lastLogin = [key |-> _login_key(c, p), good |-> FALSE,
                        at |-> _LOCKOUT_DURATION_SECONDS,
                        lock |-> <<_LOCKOUT_DURATION_SECONDS>>, status |-> InvalidLogin]
        /\ RATE_LIMITS[RateKey("login", c, p)] =
               <<<<_LOCKOUT_DURATION_SECONDS - 1, _LOCKOUT_DURATION_SECONDS>>>>
        /\ FAILED_LOGINS[_login_key(c, p)] = <<<<_LOCKOUT_DURATION_SECONDS>>>>
        /\ LOGIN_LOCKS[_login_key(c, p)] = <<>>

\* --------------------------------------------------------------------- C39
\* C39: opening an archived report stores the session of its snapshot as
\* the user's draft, cached and on file, in place of any draft there was,
\* and leaves the index and the report's directory as they were; opening
\* an id that has no snapshot answers not-found and leaves the draft and
\* the index as they were.
C39_OpenLoadsSnapshot ==
    [][\A u \in Users, r \in ReportIdInputs :
          open_report(u, r) =>
              IF get_report_data(reportDirs[u], r) = <<>>
              THEN /\ last'.status = "404 Report not found"
                   /\ UNCHANGED <<sessions, draftFile, index>>
              ELSE /\ last'.status = "ok"
                   /\ sessions'[u] = <<from_dict(get_report_data(reportDirs[u], r)[1])>>
                   /\ draftFile'[u] =
                          SaveSession(from_dict(get_report_data(reportDirs[u], r)[1]))
                   /\ reportDirs'[u][r] = reportDirs[u][r]
                   /\ index' = index]_vars

\* --------------------------------------------------------------------- C40
\* C40: whatever contacts were added and deleted, generate_id returns an
\* id that no contact of the user has, an add_contact under a generated id
\* is not rejected, and no two contacts of a user share an id.
C40_GeneratedIdUnused ==
    /\ \A u \in Users :
          /\ ~HasContact(u, generate_id(u))
          /\ \A i, j \in 1..Len(book[u]) : i /= j => book[u][i] /= book[u][j]
    /\ lastContact.op = "add_contact" => lastContact.result

====
